---- MODULE Spec2Model ----
(***************************************************************************)
(* A model of the trip/route statistics engine of gtfstk: the calendar     *)
(* resolver, the activity matrix, the trip statistics and the route        *)
(* aggregation, as implemented in src/gtfstk/trips.py (functions on a      *)
(* feed) and in src/feed.py (methods of the class Feed).                   *)
(*                                                                         *)
(* Dates are the integers YYYYMMDD (the date strings of the feed, whose    *)
(* lexicographic order is the order of these integers).  Time strings are  *)
(* sequences of one-character strings.  A nullable number is a sequence of *)
(* length 0 (NaN) or 1.                                                    *)
(***************************************************************************)
EXTENDS Integers, Sequences, FiniteSets, TLC

VARIABLES trips, calendar, calendar_dates, stop_times, shapes, dist_units, feed0, call, calls

vars == <<trips, calendar, calendar_dates, stop_times, shapes, dist_units, feed0, call, calls>>

(***************************************************************************)
(* Bounds of the model.                                                    *)
(***************************************************************************)
MaxDates == 2
MaxExceptions == 2
MaxCalls == 1
MaxCodecCalls == 2

(***************************************************************************)
(* Generic helpers on sequences.                                           *)
(***************************************************************************)
RECURSIVE SeqsUpTo(_, _)
SeqsUpTo(S, n) ==
    IF n = 0 THEN {<<>>}
    ELSE LET shorter == SeqsUpTo(S, n - 1)
         IN  shorter \cup {Append(q, x) : q \in {p \in shorter : Len(p) = n - 1}, x \in S}

Range(q) == {q[i] : i \in 1..Len(q)}

\* A function [i \in 1..n |-> e] as the tuple of its values.
Tuple(f) == f \o <<>>

\* Below, CHOOSE v \in {e : x \in {d}} : TRUE is LET x == d IN e with the value of d
\* computed once, and \E x \in {d} : A is LET x == d IN A likewise.

SetMin(S) == CHOOSE x \in S : \A y \in S : x <= y

SetMax(S) == CHOOSE x \in S : \A y \in S : y <= x

RECURSIVE Sum(_)
Sum(q) == IF q = <<>> THEN 0 ELSE Head(q) + Sum(Tail(q))

(***************************************************************************)
(* Dates.  datestr_to_date(date).weekday() of trips.py and date.weekday()  *)
(* of feed.py: the day of the week of a civil date, Monday = 0.            *)
(***************************************************************************)
weekday(date) ==
    LET y  == date \div 10000
        m  == (date \div 100) % 100
        d  == date % 100
        a  == (14 - m) \div 12
        yy == y + 4800 - a
        mm == m + 12 * a - 3
        jdn == d + ((153 * mm + 2) \div 5) + 365 * yy + (yy \div 4)
                 - (yy \div 100) + (yy \div 400) - 32045
    IN  jdn % 7

weekday_to_str(i) ==
    <<"monday", "tuesday", "wednesday", "thursday", "friday", "saturday", "sunday">>[i + 1]

(***************************************************************************)
(* The feed tables the model draws its feeds from.                         *)
(***************************************************************************)
Dates == {20231231, 20240101, 20240108}
ExceptionDates == {20240101, 20240108}
TripIds == {"t1", "t2", "t3"}

CalendarRow(service, start, end, mon, other) ==
    [service_id |-> service, start_date |-> start, end_date |-> end,
     monday |-> mon, tuesday |-> other, wednesday |-> other, thursday |-> other,
     friday |-> other, saturday |-> other, sunday |-> other]

S1Rows == {CalendarRow("s1", a, b, 1, 0) : a \in Dates, b \in Dates} \cap
          {CalendarRow("s1", p[1], p[2], 1, 0) : p \in {q \in Dates \X Dates : q[1] <= q[2]}}

S2Row == CalendarRow("s2", 20231231, 20240108, 1, 1)

S3Row == CalendarRow("s3", 20231231, 20240108, 0, 1)

Calendars ==
    {[present |-> FALSE, rows |-> <<>>], [present |-> TRUE, rows |-> <<>>]}
    \cup {[present |-> TRUE, rows |-> <<r>>] : r \in S1Rows}
    \cup {[present |-> TRUE, rows |-> <<r, S2Row, S3Row>>] : r \in S1Rows}

ExceptionRows ==
    {[service_id |-> "s1", date |-> d, exception_type |-> e] : d \in ExceptionDates, e \in {1, 2}}

CalendarDates ==
    {[present |-> FALSE, rows |-> <<>>]}
    \cup {[present |-> TRUE, rows |-> q] : q \in SeqsUpTo(ExceptionRows, MaxExceptions)}

TripRow(trip, route, service, shape) ==
    [trip_id |-> trip, route_id |-> route, direction_id |-> 0, shape_id |-> shape,
     service_id |-> service]

DefaultTrips ==
    [rows |-> <<TripRow("t1", "r1", "s1", <<"sh1">>),
                TripRow("t2", "r1", "s2", <<"sh1">>),
                TripRow("t3", "r2", "s3", <<"sh2">>)>>,
     date_columns |-> <<>>, date_cells |-> <<>>]

\* trips.txt as it is, or with a trip whose shape_id is missing.
TripsTables ==
    {DefaultTrips, [DefaultTrips EXCEPT !.rows[3].shape_id = <<>>]}

(***************************************************************************)
(* Calendar resolver of src/gtfstk/trips.py.                               *)
(***************************************************************************)
trip_index(trip_id) ==
    (CHOOSE i \in 1..Len(trips.rows) : trips.rows[i].trip_id = trip_id)

_trips_i(trip_id) == trips.rows[trip_index(trip_id)]

exception_group(service, date) ==
    SelectSeq(calendar_dates.rows, LAMBDA r : r.service_id = service /\ r.date = date)

calendar_index == {calendar.rows[i].service_id : i \in 1..Len(calendar.rows)}

_calendar_i(service) ==
    calendar.rows[CHOOSE i \in 1..Len(calendar.rows) : calendar.rows[i].service_id = service]

\* is_active_trip with the end of the service period excluded (date < end_date).
is_active_trip_end_excluded(trip_id, date) ==
    LET service == _trips_i(trip_id).service_id
        group   == exception_group(service, date)
    IN  IF calendar_dates.present /\ group # <<>>
        THEN group[1].exception_type = 1
        ELSE IF calendar.present /\ service \in calendar_index
             THEN /\ _calendar_i(service).start_date <= date
                  /\ date < _calendar_i(service).end_date
                  /\ _calendar_i(service)[weekday_to_str(weekday(date))] = 1
             ELSE FALSE

is_active_trip(trip_id, date) ==
    LET service == _trips_i(trip_id).service_id
        group   == exception_group(service, date)
    IN  IF calendar_dates.present /\ group # <<>>
        THEN group[1].exception_type = 1
        ELSE IF calendar.present /\ service \in calendar_index
             THEN /\ _calendar_i(service).start_date <= date
                  /\ date <= _calendar_i(service).end_date
                  /\ _calendar_i(service)[weekday_to_str(weekday(date))] = 1
             ELSE FALSE

(***************************************************************************)
(* Calendar resolver of src/feed.py.  calendar_m is the inner join of      *)
(* trips with calendar, indexed by trip_id; looking up a trip that is not  *)
(* in it raises KeyError.  A result is [raised, value]; raised = "" when   *)
(* the call returns.  A Feed reads calendar.txt and shapes.txt when it is  *)
(* constructed, so its methods run only on a feed with these tables; a     *)
(* missing calendar_dates.txt gives an empty calendar_dates table.         *)
(***************************************************************************)
Returned(v) == [raised |-> "", value |-> v]

Raised(e) == [raised |-> e, value |-> FALSE]

calendar_m_index ==
    {trips.rows[i].trip_id : i \in {j \in 1..Len(trips.rows) : trips.rows[j].service_id \in calendar_index}}

Feed_constructed == calendar.present /\ shapes.present

Feed_is_active_trip(trip, date) ==
    IF trip \notin calendar_m_index THEN Raised("KeyError")
    ELSE LET row     == _calendar_i(_trips_i(trip).service_id)
             cald    == calendar_dates.rows
             service == row.service_id
             Has(e)  == \E i \in 1..Len(cald) : /\ cald[i].service_id = service
                                                 /\ cald[i].date = date
                                                 /\ cald[i].exception_type = e
         IN  IF cald # <<>> /\ Has(1) THEN Returned(TRUE)
             ELSE IF cald # <<>> /\ Has(2) THEN Returned(FALSE)
             ELSE Returned(/\ row.start_date <= date
                           /\ date <= row.end_date
                           /\ row[weekday_to_str(weekday(date))] = 1)

(***************************************************************************)
(* The dates of a Feed of src/feed.py: get_dates lists every day from the  *)
(* least start_date to the greatest end_date of calendar.txt.              *)
(***************************************************************************)
days_in_month(y, m) ==
    IF m = 2 THEN (IF y % 4 = 0 /\ (y % 100 # 0 \/ y % 400 = 0) THEN 29 ELSE 28)
    ELSE IF m \in {4, 6, 9, 11} THEN 30 ELSE 31

\* date + relativedelta(days=+1)
tomorrow(date) ==
    IF date % 100 < days_in_month(date \div 10000, (date \div 100) % 100) THEN date + 1
    ELSE IF (date \div 100) % 100 < 12 THEN (date \div 100 + 1) * 100 + 1
    ELSE (date \div 10000 + 1) * 10000 + 101

RECURSIVE days_from(_, _)
days_from(start_date, end_date) ==
    IF start_date > end_date THEN <<>>
    ELSE <<start_date>> \o days_from(tomorrow(start_date), end_date)

\* With an empty calendar.txt min() and max() give no date and the subtraction or its
\* .days fails; raised = "Error" stands for that exception.  The result is
\* [raised, value].
Feed_get_dates ==
    IF calendar.rows = <<>> THEN [raised |-> "Error", value |-> <<>>]
    ELSE [raised |-> "",
          value  |-> days_from(SetMin({calendar.rows[i].start_date : i \in 1..Len(calendar.rows)}),
                               SetMax({calendar.rows[i].end_date : i \in 1..Len(calendar.rows)}))]

\* Feed_get_first_week that takes the first date of the feed for the first Monday.
Feed_get_first_week_from_start ==
    CHOOSE result \in
        {IF d.raised # "" THEN d
         ELSE [raised |-> "",
               value  |-> SubSeq(d.value, 1, IF 7 < Len(d.value) THEN 7 ELSE Len(d.value))]
           : d \in {Feed_get_dates}} : TRUE

\* monday_index is the first position of dates that holds a Monday, or None; the loop
\* appends dates[monday_index + j] for j = 0..6 and stops at the first exception: the
\* IndexError past the end of dates, or the TypeError of None + j.
Feed_get_first_week ==
    CHOOSE result \in
        {IF d.raised # "" THEN d
         ELSE CHOOSE r \in
                {IF mondays = {} THEN [raised |-> "", value |-> <<>>]
                 ELSE [raised |-> "",
                       value  |-> SubSeq(d.value, SetMin(mondays),
                                         IF SetMin(mondays) + 6 < Len(d.value)
                                         THEN SetMin(mondays) + 6 ELSE Len(d.value))]
                   : mondays \in {{i \in 1..Len(d.value) : weekday(d.value[i]) = 0}}} : TRUE
           : d \in {Feed_get_dates}} : TRUE

(***************************************************************************)
(* The dates for which the feed is valid, and the restriction of a list of *)
(* dates to them (feed.get_dates, feed.restrict_dates).                    *)
(***************************************************************************)
get_dates ==
    LET cal == IF calendar.present /\ calendar.rows # <<>>
               THEN {SetMin({calendar.rows[i].start_date : i \in 1..Len(calendar.rows)}),
                     SetMax({calendar.rows[i].end_date : i \in 1..Len(calendar.rows)})}
               ELSE {}
        exc == IF calendar_dates.present /\ calendar_dates.rows # <<>>
               THEN {calendar_dates.rows[i].date : i \in 1..Len(calendar_dates.rows)}
               ELSE {}
        ds  == cal \cup exc
    IN  IF ds = {} THEN {} ELSE {d \in Dates : SetMin(ds) <= d /\ d <= SetMax(ds)}

restrict_dates(dates) == SelectSeq(dates, LAMBDA d : d \in get_dates)

(***************************************************************************)
(* Activity matrix.  A frame is [empty, trip_id, route_id, dates, cells]:  *)
(* the trip_id (and route_id) column, the date columns in order, and       *)
(* cells[j][i], the cell of row i in the j-th date column.                 *)
(***************************************************************************)
int(b) == IF b THEN 1 ELSE 0

NoFrame == [empty |-> TRUE, trip_id |-> <<>>, route_id |-> <<>>, dates |-> <<>>, cells |-> <<>>]

\* compute_trip_activity with every column computed for the last date of the loop
\* (the lambda reading the loop variable after the loop has ended).
compute_trip_activity_last_date(dates0) ==
    LET dates == restrict_dates(dates0)
        f     == trips.rows
    IN  IF dates = <<>> THEN NoFrame
        ELSE [empty    |-> FALSE,
              trip_id  |-> [i \in 1..Len(f) |-> f[i].trip_id],
              route_id |-> <<>>,
              dates    |-> dates,
              cells    |-> Tuple([j \in 1..Len(dates) |->
                              Tuple([i \in 1..Len(f) |->
                                       int(is_active_trip(f[i].trip_id, dates[Len(dates)]))])])]

\* compute_trip_activity without the restriction of the dates to those of the feed.
compute_trip_activity_unrestricted(dates0) ==
    LET dates == dates0
        f     == trips.rows
    IN  IF dates = <<>> THEN NoFrame
        ELSE [empty    |-> FALSE,
              trip_id  |-> [i \in 1..Len(f) |-> f[i].trip_id],
              route_id |-> <<>>,
              dates    |-> dates,
              cells    |-> Tuple([j \in 1..Len(dates) |->
                              Tuple([i \in 1..Len(f) |-> int(is_active_trip(f[i].trip_id, dates[j]))])])]

compute_trip_activity(dates0) ==
    LET dates == restrict_dates(dates0)
        f     == trips.rows
    IN  IF dates = <<>> THEN NoFrame
        ELSE [empty    |-> FALSE,
              trip_id  |-> [i \in 1..Len(f) |-> f[i].trip_id],
              route_id |-> <<>>,
              dates    |-> dates,
              cells    |-> Tuple([j \in 1..Len(dates) |->
                              Tuple([i \in 1..Len(f) |-> int(is_active_trip(f[i].trip_id, dates[j]))])])]

set_column(f, date, cells) ==
    IF \E j \in 1..Len(f.date_columns) : f.date_columns[j] = date
    THEN LET j == CHOOSE k \in 1..Len(f.date_columns) : f.date_columns[k] = date
         IN  [f EXCEPT !.date_cells[j] = cells]
    ELSE [f EXCEPT !.date_columns = Append(@, date), !.date_cells = Append(@, cells)]

column(f, date) ==
    f.date_cells[CHOOSE k \in 1..Len(f.date_columns) : f.date_columns[k] = date]

RECURSIVE activity_loop(_, _)
activity_loop(f, dates) ==
    IF dates = <<>> THEN [raised |-> "", f |-> f]
    ELSE CHOOSE r \in
           {IF \E i \in 1..Len(col) : col[i].raised # ""
            THEN [raised |-> col[SetMin({i \in 1..Len(col) : col[i].raised # ""})].raised, f |-> f]
            ELSE CHOOSE q \in
                   {activity_loop(g, Tail(dates))
                      : g \in {set_column(f, Head(dates),
                                          Tuple([i \in 1..Len(col) |-> int(col[i].value)]))}} : TRUE
              : col \in {Tuple([i \in 1..Len(f.rows) |->
                                  Feed_is_active_trip(f.rows[i].trip_id, Head(dates))])}} : TRUE

Feed_get_trips_activity(dates) ==
    IF dates = <<>> THEN [none |-> TRUE, raised |-> "", f |-> trips, frame |-> NoFrame]
    ELSE CHOOSE a \in
           {IF r.raised # "" THEN [none |-> FALSE, raised |-> r.raised, f |-> r.f, frame |-> NoFrame]
            ELSE [none |-> FALSE, raised |-> "", f |-> r.f,
                  frame  |-> [empty    |-> FALSE,
                              trip_id  |-> Tuple([i \in 1..Len(r.f.rows) |-> r.f.rows[i].trip_id]),
                              route_id |-> Tuple([i \in 1..Len(r.f.rows) |-> r.f.rows[i].route_id]),
                              dates    |-> dates,
                              cells    |-> Tuple([j \in 1..Len(dates) |-> column(r.f, dates[j])])]]
              : r \in {activity_loop(trips, dates)}} : TRUE

\* max(s) for the list s of the tuples (f[c].sum(), c) of the date columns of f: the
\* tuples are compared by their sum first and by their date string next.  Without a
\* date column max() has nothing to choose from, and with a date given twice f[c] is
\* a frame, whose sums are Series that the comparison of two tuples cannot order:
\* both raise ValueError.  The result is [raised, value, frame].
compute_busiest_date(dates) ==
    CHOOSE result \in
        {IF f.empty \/ \E i, j \in 1..Len(f.dates) : i # j /\ f.dates[i] = f.dates[j]
         THEN [raised |-> "ValueError", value |-> 0, frame |-> f]
         ELSE CHOOSE r \in
                {[raised |-> "", frame |-> f,
                  value  |-> (CHOOSE t \in s : \A o \in s :
                                 o[1] < t[1] \/ (o[1] = t[1] /\ o[2] <= t[2]))[2]]
                   : s \in {{<<Sum(f.cells[j]), f.dates[j]>> : j \in 1..Len(f.dates)}}} : TRUE
           : f \in {compute_trip_activity(dates)}} : TRUE

(***************************************************************************)
(* Time codec.  A string is a sequence of characters; a nullable value is  *)
(* <<>> (None, NaN) or <<v>>.  str.split, int and the format '{:02d}' of   *)
(* Python, for strings over the digits and ':' and for numbers >= 0.       *)
(***************************************************************************)
DigitChars == <<"0", "1", "2", "3", "4", "5", "6", "7", "8", "9">>

IsDigit(c) == \E i \in 1..10 : DigitChars[i] = c

DigitVal(c) == (CHOOSE i \in 1..10 : DigitChars[i] = c) - 1

RECURSIVE split(_, _)
split(s, sep) ==
    IF \A i \in 1..Len(s) : s[i] # sep THEN <<s>>
    ELSE LET k == SetMin({i \in 1..Len(s) : s[i] = sep})
         IN  <<SubSeq(s, 1, k - 1)>> \o split(SubSeq(s, k + 1, Len(s)), sep)

\* IsInt that takes the empty field for a number.
IsInt_or_empty(field) == \A i \in 1..Len(field) : IsDigit(field[i])

IsInt(field) == field # <<>> /\ \A i \in 1..Len(field) : IsDigit(field[i])

RECURSIVE int_of(_)
int_of(field) ==
    IF field = <<>> THEN 0
    ELSE 10 * int_of(SubSeq(field, 1, Len(field) - 1)) + DigitVal(field[Len(field)])

RECURSIVE str_of(_)
str_of(n) ==
    IF n < 10 THEN <<DigitChars[n + 1]>>
    ELSE str_of(n \div 10) \o <<DigitChars[(n % 10) + 1]>>

format_02d(n) == IF n < 10 THEN <<"0">> \o str_of(n) ELSE str_of(n)

\* seconds_to_timestr with the hours of the time string taken modulo 24.
seconds_to_timestr_mod_24(seconds, inverse) ==
    IF ~inverse
    THEN IF seconds = <<>> THEN <<>>
         ELSE LET hours     == (seconds[1] \div 3600) % 24
                  remainder == seconds[1] % 3600
                  mins      == remainder \div 60
                  secs      == remainder % 60
              IN  <<format_02d(hours) \o <<":">> \o format_02d(mins) \o <<":">> \o format_02d(secs)>>
    ELSE IF seconds = <<>> THEN <<>>
         ELSE LET fields == split(seconds[1], ":")
              IN  IF Len(fields) = 3 /\ \A i \in 1..3 : IsInt(fields[i])
                  THEN <<int_of(fields[1]) * 3600 + int_of(fields[2]) * 60 + int_of(fields[3])>>
                  ELSE <<>>

seconds_to_timestr(seconds, inverse) ==
    IF ~inverse
    THEN IF seconds = <<>> THEN <<>>
         ELSE LET hours     == seconds[1] \div 3600
                  remainder == seconds[1] % 3600
                  mins      == remainder \div 60
                  secs      == remainder % 60
              IN  <<format_02d(hours) \o <<":">> \o format_02d(mins) \o <<":">> \o format_02d(secs)>>
    ELSE IF seconds = <<>> THEN <<>>
         ELSE LET fields == split(seconds[1], ":")
              IN  IF Len(fields) = 3 /\ \A i \in 1..3 : IsInt(fields[i])
                  THEN <<int_of(fields[1]) * 3600 + int_of(fields[2]) * 60 + int_of(fields[3])>>
                  ELSE <<>>

timestr_to_seconds(x, inverse) == seconds_to_timestr(x, ~inverse)

\* A Python value passed to or returned by seconds_to_timestr: an int, a str or None.
PyInt(n) == [type |-> "int", int |-> n, str |-> <<>>]

PyStr(s) == [type |-> "str", int |-> 0, str |-> s]

PyNone == [type |-> "none", int |-> 0, str |-> <<>>]

\* seconds_to_timestr on any Python value.  Without inverse, int(seconds) takes an int
\* or a str of digits and fails on None and on any other str; with inverse,
\* seconds.split fails on an int and on None.  Every failure is caught by the bare
\* except, and the result is then None.
seconds_to_timestr_any(x, inverse) ==
    IF ~inverse
    THEN IF x.type = "int" THEN PyStr(seconds_to_timestr(<<x.int>>, FALSE)[1])
         ELSE IF x.type = "str" /\ IsInt(x.str)
         THEN PyStr(seconds_to_timestr(<<int_of(x.str)>>, FALSE)[1])
         ELSE PyNone
    ELSE IF x.type = "str"
         THEN CHOOSE r \in {IF v = <<>> THEN PyNone ELSE PyInt(v[1])
                              : v \in {seconds_to_timestr(<<x.str>>, TRUE)}} : TRUE
         ELSE PyNone

CharOrd(c) == IF IsDigit(c) THEN 48 + DigitVal(c) ELSE 58

RECURSIVE StrLess(_, _)
StrLess(a, b) ==
    IF b = <<>> THEN FALSE
    ELSE IF a = <<>> THEN TRUE
    ELSE IF CharOrd(Head(a)) # CharOrd(Head(b)) THEN CharOrd(Head(a)) < CharOrd(Head(b))
    ELSE StrLess(Tail(a), Tail(b))

(***************************************************************************)
(* Numbers that may be NaN or infinite: [kind, num, den] stands for NaN,   *)
(* for +infinity or for the rational num/den, den > 0.                     *)
(***************************************************************************)
NaN == [kind |-> "nan", num |-> 0, den |-> 1]

Inf == [kind |-> "inf", num |-> 0, den |-> 1]

Num(n, d) == IF d < 0 THEN [kind |-> "num", num |-> 0 - n, den |-> 0 - d]
             ELSE [kind |-> "num", num |-> n, den |-> d]

FloatDiv(x, y) ==
    IF x.kind # "num" \/ y.kind # "num" THEN NaN
    ELSE IF y.num = 0 THEN (IF x.num = 0 THEN NaN ELSE Inf)
    ELSE Num(x.num * y.den, x.den * y.num)

Pairs(s) == (1..Len(s)) \X (1..Len(s))

\* The stable sort of s0 by the order less, the set of the pairs <<i, j>> of indices
\* with s0[i] strictly before s0[j].
SortBy(s0, less) ==
    CHOOSE sorted \in
        {Tuple([k \in 1..Len(s) |->
                  s[CHOOSE i \in 1..Len(s) :
                      Cardinality({j \in 1..Len(s) :
                                     <<j, i>> \in l \/ (<<i, j>> \notin l /\ j < i)}) + 1 = k]])
           : s \in {Tuple(s0)}, l \in {less}} : TRUE

(***************************************************************************)
(* The stops, routes, stop times and shapes the model draws its feeds      *)
(* from.  The geometry is one-dimensional: a stop is a point x of a line,  *)
(* the linestring of a shape runs from 0 to its length along that line, so *)
(* linestring.project(point) is x clamped to [0, length] and the distance  *)
(* of two points is |x1 - x2|; is_simple is the linestring's attribute.    *)
(***************************************************************************)
stops == <<[stop_id |-> "A", x |-> 0], [stop_id |-> "B", x |-> 300], [stop_id |-> "C", x |-> 1000]>>

routes == <<[route_id |-> "r1", route_short_name |-> "1", route_type |-> 3],
            [route_id |-> "r2", route_short_name |-> "2", route_type |-> 3]>>

IdOrder == <<"r1", "r2", "t1", "t2", "t3">>

IdLess(a, b) == (CHOOSE i \in 1..Len(IdOrder) : IdOrder[i] = a)
                  < (CHOOSE i \in 1..Len(IdOrder) : IdOrder[i] = b)

T(h, m) == h \o <<":">> \o m \o <<":", "0", "0">>

StopTime(trip, seq, stop, time) ==
    [trip_id |-> trip, stop_sequence |-> seq, stop_id |-> stop, departure_time |-> <<time>>,
     shape_dist_traveled |-> <<>>]

T1StopTimes ==
    { <<StopTime("t1", 1, "A", T(<<"0", "8">>, <<"0", "0">>)),
        StopTime("t1", 2, "B", T(<<"0", "8">>, <<"1", "0">>)),
        StopTime("t1", 3, "C", T(<<"2", "5">>, <<"0", "0">>))>>,
      <<StopTime("t1", 1, "A", T(<<"0", "8">>, <<"0", "0">>)),
        StopTime("t1", 2, "B", T(<<"0", "8">>, <<"1", "0">>)),
        StopTime("t1", 3, "C", T(<<"0", "8">>, <<"1", "0">>))>>,
      <<StopTime("t1", 1, "A", T(<<"0", "8">>, <<"0", "0">>))>>,
      <<StopTime("t1", 2, "C", T(<<"0", "9">>, <<"0", "0">>)),
        StopTime("t1", 1, "A", T(<<"0", "8">>, <<"0", "0">>))>>,
      <<StopTime("t1", 1, "C", T(<<"0", "8">>, <<"0", "0">>)),
        StopTime("t1", 2, "A", T(<<"0", "8">>, <<"3", "0">>))>>,
      <<StopTime("t1", 1, "A", T(<<"8">>, <<"0", "0">>)),
        StopTime("t1", 2, "C", T(<<"9">>, <<"0", "5">>))>>,
      <<StopTime("t1", 1, "A", T(<<"0", "8">>, <<"3", "0">>)),
        StopTime("t1", 2, "C", T(<<"0", "9">>, <<"0", "0">>))>>,
      <<StopTime("t1", 1, "A", <<"0", "8", ":", "0", "0", ":", "3", "0">>),
        StopTime("t1", 2, "C", <<"0", "8", ":", "1", "0", ":", "0", "0">>)>>,
      <<StopTime("t1", 1, "A", <<"0", "8", ":", "0", "0", ":", "1", "0">>),
        StopTime("t1", 2, "C", <<"0", "8", ":", "0", "0", ":", "5", "0">>)>>,
      <<StopTime("t1", 1, "A", T(<<"2", "3">>, <<"3", "0">>)),
        StopTime("t1", 2, "C", T(<<"2", "4">>, <<"0", "0">>))>>,
      <<StopTime("t1", 1, "A", T(<<"0", "8">>, <<"0", "0">>)),
        StopTime("t1", 2, "C", T(<<"3", "2">>, <<"0", "0">>))>> }

OtherStopTimes ==
    <<StopTime("t2", 1, "A", T(<<"0", "8">>, <<"3", "0">>)),
      StopTime("t2", 2, "C", T(<<"0", "9">>, <<"3", "0">>)),
      StopTime("t3", 1, "B", T(<<"0", "7">>, <<"0", "0">>)),
      StopTime("t3", 2, "C", T(<<"0", "7">>, <<"2", "0">>))>>

StopX(stop) == stops[CHOOSE i \in 1..Len(stops) : stops[i].stop_id = stop].x

WithDist(rows, trip_ids, min_sequence) ==
    [i \in 1..Len(rows) |->
       IF rows[i].trip_id \in trip_ids /\ rows[i].stop_sequence >= min_sequence THEN [rows[i] EXCEPT !.shape_dist_traveled = <<StopX(rows[i].stop_id)>>]
       ELSE rows[i]]

StopTimesTables ==
    UNION { { [has_shape_dist_traveled |-> FALSE, rows |-> q \o OtherStopTimes],
              [has_shape_dist_traveled |-> TRUE,  rows |-> q \o OtherStopTimes],
              [has_shape_dist_traveled |-> TRUE,
               rows |-> WithDist(q \o OtherStopTimes, {"t1"}, 1)],
              [has_shape_dist_traveled |-> TRUE,
               rows |-> WithDist(q \o OtherStopTimes, TripIds, 2)] }
            : q \in T1StopTimes }

Shape(id, length, simple) == [shape_id |-> id, length |-> length, is_simple |-> simple]

ShapesTables ==
    { [present |-> FALSE, rows |-> <<>>],
      [present |-> TRUE, rows |-> <<Shape("sh1", 1000, TRUE), Shape("sh2", 800, TRUE)>>],
      [present |-> TRUE, rows |-> <<Shape("sh1", 1000, TRUE)>>],
      [present |-> TRUE, rows |-> <<Shape("sh1", 1200, FALSE), Shape("sh2", 800, TRUE)>>],
      [present |-> TRUE, rows |-> <<Shape("sh1", 1100, TRUE), Shape("sh2", 800, TRUE)>>] }

DistUnits == {"m", "km"}

DefaultStopTimes ==
    [has_shape_dist_traveled |-> FALSE,
     rows |-> <<StopTime("t1", 1, "A", T(<<"0", "8">>, <<"0", "0">>)),
                StopTime("t1", 2, "B", T(<<"0", "8">>, <<"1", "0">>)),
                StopTime("t1", 3, "C", T(<<"2", "5">>, <<"0", "0">>))>> \o OtherStopTimes]

DefaultShapes ==
    [present |-> TRUE, rows |-> <<Shape("sh1", 1000, TRUE), Shape("sh2", 800, TRUE)>>]

DefaultCalendar ==
    [present |-> TRUE, rows |-> <<CalendarRow("s1", 20231231, 20240108, 1, 0), S2Row, S3Row>>]

DefaultCalendarDates == [present |-> TRUE, rows |-> <<>>]

(***************************************************************************)
(* Trip statistics of src/gtfstk/trips.py.                                 *)
(***************************************************************************)
geometry_by_stop == [id \in {stops[i].stop_id : i \in 1..Len(stops)} |-> StopX(id)]

geometry_by_shape ==
    [id \in {shapes.rows[i].shape_id : i \in 1..Len(shapes.rows)} |->
       shapes.rows[CHOOSE i \in 1..Len(shapes.rows) : shapes.rows[i].shape_id = id]]

Abs(n) == IF n < 0 THEN 0 - n ELSE n

project(linestring, x) == IF x < 0 THEN 0 ELSE IF x > linestring.length THEN linestring.length ELSE x

get_convert_dist(dist_units_in, dist_units_out) ==
    IF dist_units_out = "km" THEN 1000 ELSE 1

is_not_null(f, has_column) ==
    has_column /\ \E i \in 1..Len(f) : f[i].shape_dist_traveled # <<>>

\* The rows of the frame f of compute_trip_stats that belong to one trip, in the order
\* of sort_values(["trip_id", "stop_sequence"]).
group_of(trip_id) ==
    CHOOSE sorted \in
        {SortBy(g, {p \in Pairs(g) : g[p[1]].stop_sequence < g[p[2]].stop_sequence})
           : g \in {SelectSeq(stop_times.rows, LAMBDA r : r.trip_id = trip_id)}} : TRUE

my_agg(trow, group) ==
    CHOOSE d \in
        {[trip_id          |-> trow.trip_id,
          route_id         |-> trow.route_id,
          route_short_name |-> rrow.route_short_name,
          route_type       |-> rrow.route_type,
          direction_id     |-> trow.direction_id,
          shape_id         |-> trow.shape_id,
          num_stops        |-> Len(group),
          start_time       |-> start_time,
          end_time         |-> end_time,
          start_stop_id    |-> group[1].stop_id,
          end_stop_id      |-> group[Len(group)].stop_id,
          is_loop          |-> int(Abs(geometry_by_stop[group[1].stop_id]
                                       - geometry_by_stop[group[Len(group)].stop_id]) < 400),
          duration         |-> IF start_time = <<>> \/ end_time = <<>> THEN NaN
                               ELSE Num(end_time[1] - start_time[1], 3600)]
           : rrow       \in {routes[CHOOSE i \in 1..Len(routes) : routes[i].route_id = trow.route_id]},
             start_time \in {timestr_to_seconds(group[1].departure_time, FALSE)},
             end_time   \in {timestr_to_seconds(group[Len(group)].departure_time, FALSE)}} : TRUE

max_shape_dist_traveled(group) ==
    LET vs == {group[i].shape_dist_traveled[1] :
                 i \in {j \in 1..Len(group) : group[j].shape_dist_traveled # <<>>}}
    IN  IF vs = {} THEN NaN ELSE Num(SetMax(vs), 1)

compute_dist(trow, group) ==
    IF trow.shape_id = <<>> \/ trow.shape_id[1] \notin DOMAIN geometry_by_shape THEN <<>>
    ELSE LET linestring == geometry_by_shape[trow.shape_id[1]]
             D          == linestring.length
             start_stop == group[1].stop_id
             end_stop   == group[Len(group)].stop_id
         IN  IF ~linestring.is_simple THEN <<D>>
             ELSE IF start_stop \notin DOMAIN geometry_by_stop \/ end_stop \notin DOMAIN geometry_by_stop
             THEN <<D>>
             ELSE LET d1 == project(linestring, geometry_by_stop[start_stop])
                      d2 == project(linestring, geometry_by_stop[end_stop])
                      d  == d2 - d1
                  IN  IF 0 < d /\ d < D + 100 THEN <<d>> ELSE <<D>>

\* trip_distance falling back on the shape geometry for a trip without a
\* shape_dist_traveled value.
trip_distance_per_trip(trow, group, f, compute_dist_from_shapes) ==
    IF /\ is_not_null(f, stop_times.has_shape_dist_traveled) /\ ~compute_dist_from_shapes
       /\ max_shape_dist_traveled(group).kind = "num"
    THEN max_shape_dist_traveled(group)
    ELSE IF shapes.present
    THEN LET d == compute_dist(trow, group)
         IN  IF d = <<>> THEN NaN ELSE Num(d[1], get_convert_dist("m", dist_units))
    ELSE NaN

trip_distance(trow, group, f, compute_dist_from_shapes) ==
    IF is_not_null(f, stop_times.has_shape_dist_traveled) /\ ~compute_dist_from_shapes
    THEN max_shape_dist_traveled(group)
    ELSE IF shapes.present
    THEN LET d == compute_dist(trow, group)
         IN  IF d = <<>> THEN NaN ELSE Num(d[1], get_convert_dist("m", dist_units))
    ELSE NaN

TripStatsLess(a, b) ==
    \/ IdLess(a.route_id, b.route_id)
    \/ /\ a.route_id = b.route_id
       /\ \/ a.direction_id < b.direction_id
          \/ /\ a.direction_id = b.direction_id
             /\ a.start_time # <<>>
             /\ (b.start_time = <<>> \/ StrLess(a.start_time[1], b.start_time[1]))

\* The row of h of one trip: my_agg, the distance, the speed and the times as strings.
trip_stats_row(trow, f, compute_dist_from_shapes) ==
    CHOOSE r \in
        {CHOOSE h \in
            {[trip_id          |-> row.trip_id,
              route_id         |-> row.route_id,
              route_short_name |-> row.route_short_name,
              route_type       |-> row.route_type,
              direction_id     |-> row.direction_id,
              shape_id         |-> row.shape_id,
              num_stops        |-> row.num_stops,
              start_time       |-> timestr_to_seconds(row.start_time, TRUE),
              end_time         |-> timestr_to_seconds(row.end_time, TRUE),
              start_stop_id    |-> row.start_stop_id,
              end_stop_id      |-> row.end_stop_id,
              is_loop          |-> row.is_loop,
              duration         |-> row.duration,
              distance         |-> distance,
              speed            |-> FloatDiv(distance, row.duration)]
               : row      \in {my_agg(trow, group)},
                 distance \in {trip_distance(trow, group, f, compute_dist_from_shapes)}} : TRUE
           : group \in {group_of(trow.trip_id)}} : TRUE

\* The trips of the frame f of compute_trip_stats: those of the given routes that
\* merge with routes and stop_times, in the order of their trip_id.
selected_trips(route_ids) ==
    CHOOSE ts \in
        {SortBy(sel, {p \in Pairs(sel) : IdLess(sel[p[1]].trip_id, sel[p[2]].trip_id)})
           : sel \in {SelectSeq(trips.rows,
                                LAMBDA r : /\ (route_ids.all \/ r.route_id \in route_ids.ids)
                                           /\ \E i \in 1..Len(routes) :
                                                routes[i].route_id = r.route_id
                                           /\ \E i \in 1..Len(stop_times.rows) :
                                                stop_times.rows[i].trip_id = r.trip_id)}} : TRUE

compute_trip_stats(route_ids, compute_dist_from_shapes) ==
    CHOOSE stats \in
        {CHOOSE sorted \in
            {SortBy(h, {p \in Pairs(h) : TripStatsLess(h[p[1]], h[p[2]])})
               : h \in {CHOOSE rows \in
                          {Tuple([i \in 1..Len(ts) |->
                                    trip_stats_row(ts[i], f, compute_dist_from_shapes)])
                             : f \in {SelectSeq(stop_times.rows,
                                                LAMBDA r : \E i \in 1..Len(ts) :
                                                              ts[i].trip_id = r.trip_id)}} : TRUE}}
              : TRUE
           : ts \in {selected_trips(route_ids)}} : TRUE

(***************************************************************************)
(* Trip statistics of src/feed.py.  The feeds of the model hold departure  *)
(* times that parse; a distance is in meters, a duration in seconds.       *)
(***************************************************************************)
reformat(timestr) == IF Len(timestr) = 7 THEN <<"0">> \o timestr ELSE timestr

get_stop_times ==
    Tuple([i \in 1..Len(stop_times.rows) |->
             [stop_times.rows[i] EXCEPT !.departure_time = <<reformat(@[1])>>]])

linestring_by_shape == geometry_by_shape

xy_by_stop == geometry_by_stop

get_segment_length(linestring, p, q) == Abs(project(linestring, p) - project(linestring, q))

\* The rows of merge(trips, stop_times) of one trip, departure times in seconds.
Feed_group(trip_id) ==
    CHOOSE group \in
        {Tuple([i \in 1..Len(st) |->
                  [st[i] EXCEPT !.departure_time =
                                  seconds_to_timestr(st[i].departure_time, TRUE)[1]]])
           : st \in {SelectSeq(get_stop_times, LAMBDA r : r.trip_id = trip_id)}} : TRUE

argmin(group) ==
    SetMin({i \in 1..Len(group) : \A j \in 1..Len(group) :
              group[i].departure_time <= group[j].departure_time})

argmax(group) ==
    SetMin({i \in 1..Len(group) : \A j \in 1..Len(group) :
              group[j].departure_time <= group[i].departure_time})

Feed_g(trow) ==
    CHOOSE row \in
        {CHOOSE r \in
            {[trip_id    |-> trow.trip_id,
              start_time |-> seconds_to_timestr(<<group[i].departure_time>>, FALSE),
              end_time   |-> seconds_to_timestr(<<group[j].departure_time>>, FALSE),
              duration   |-> Num(group[j].departure_time - group[i].departure_time, 1),
              start_stop |-> group[i].stop_id,
              end_stop   |-> group[j].stop_id,
              shape_id   |-> trow.shape_id]
               : i \in {argmin(group)}, j \in {argmax(group)}} : TRUE
           : group \in {Feed_group(trow.trip_id)}} : TRUE

\* distance_loop with the cache of a shape read whatever the pair of stops.
RECURSIVE distance_loop_by_shape(_, _, _)
distance_loop_by_shape(todo, dist_by_stop_pair_by_shape, done) ==
    IF todo = <<>> THEN [raised |-> "", rows |-> done]
    ELSE LET row       == Head(todo)
             stop_pair == {row.start_stop, row.end_stop}
         IN  IF row.shape_id = <<>> \/ row.shape_id[1] \notin DOMAIN linestring_by_shape
             THEN [raised |-> "KeyError", rows |-> done]
             ELSE LET shape  == row.shape_id[1]
                      cached == {e \in dist_by_stop_pair_by_shape :
                                   e.shape = shape}
                  IN  IF cached # {}
                      THEN distance_loop_by_shape(Tail(todo), dist_by_stop_pair_by_shape,
                                         Append(done, [trip_id |-> row.trip_id,
                                                       distance |-> (CHOOSE e \in cached : TRUE).d]))
                      ELSE IF row.start_stop \notin DOMAIN xy_by_stop \/ row.end_stop \notin DOMAIN xy_by_stop
                      THEN [raised |-> "KeyError", rows |-> done]
                      ELSE LET linestring == linestring_by_shape[shape]
                               d0 == get_segment_length(linestring, xy_by_stop[row.start_stop],
                                                        xy_by_stop[row.end_stop])
                               d  == IF d0 = 0 THEN linestring.length ELSE d0
                           IN  distance_loop_by_shape(Tail(todo),
                                             dist_by_stop_pair_by_shape
                                               \cup {[shape |-> shape, stop_pair |-> stop_pair, d |-> d]},
                                             Append(done, [trip_id |-> row.trip_id, distance |-> d]))

\* The loop of get_trips_stats over the rows of g; dist_by_stop_pair_by_shape is a set
\* of entries [shape, stop_pair, d].
RECURSIVE distance_loop(_, _, _)
distance_loop(todo, dist_by_stop_pair_by_shape, done) ==
    IF todo = <<>> THEN [raised |-> "", rows |-> done]
    ELSE LET row       == Head(todo)
             stop_pair == {row.start_stop, row.end_stop}
         IN  IF row.shape_id = <<>> \/ row.shape_id[1] \notin DOMAIN linestring_by_shape
             THEN [raised |-> "KeyError", rows |-> done]
             ELSE LET shape  == row.shape_id[1]
                      cached == {e \in dist_by_stop_pair_by_shape :
                                   e.shape = shape /\ e.stop_pair = stop_pair}
                  IN  IF cached # {}
                      THEN distance_loop(Tail(todo), dist_by_stop_pair_by_shape,
                                         Append(done, [trip_id |-> row.trip_id,
                                                       distance |-> (CHOOSE e \in cached : TRUE).d]))
                      ELSE IF row.start_stop \notin DOMAIN xy_by_stop \/ row.end_stop \notin DOMAIN xy_by_stop
                      THEN [raised |-> "KeyError", rows |-> done]
                      ELSE LET linestring == linestring_by_shape[shape]
                               d0 == get_segment_length(linestring, xy_by_stop[row.start_stop],
                                                        xy_by_stop[row.end_stop])
                               d  == IF d0 = 0 THEN linestring.length ELSE d0
                           IN  distance_loop(Tail(todo),
                                             dist_by_stop_pair_by_shape
                                               \cup {[shape |-> shape, stop_pair |-> stop_pair, d |-> d]},
                                             Append(done, [trip_id |-> row.trip_id, distance |-> d]))

\* The rows of g of get_trips_stats, one for each trip with stop times, in the order
\* of the trip_id (groupby).
Feed_g_rows(withtimes) ==
    CHOOSE g \in
        {Tuple([i \in 1..Len(sorted) |-> Feed_g(sorted[i])])
           : sorted \in {SortBy(withtimes,
                                {p \in Pairs(withtimes) :
                                   IdLess(withtimes[p[1]].trip_id, withtimes[p[2]].trip_id)})}} : TRUE

\* pd.merge(stats, g.reset_index()): the rows of trips with their row of g.
Feed_merge_stats(withtimes, g, dist) ==
    IF dist.raised # "" THEN [raised |-> dist.raised, rows |-> <<>>]
    ELSE [raised |-> "",
          rows   |-> Tuple([i \in 1..Len(withtimes) |->
                        CHOOSE row \in
                            {[route_id     |-> withtimes[i].route_id,
                              trip_id      |-> withtimes[i].trip_id,
                              direction_id |-> withtimes[i].direction_id,
                              start_time   |-> g[k].start_time,
                              end_time     |-> g[k].end_time,
                              duration     |-> g[k].duration,
                              start_stop   |-> g[k].start_stop,
                              end_stop     |-> g[k].end_stop,
                              shape_id     |-> g[k].shape_id,
                              distance     |-> Num(dist.rows[k].distance, 1)]
                               : k \in {j \in 1..Len(g) : g[j].trip_id = withtimes[i].trip_id}}
                          : TRUE])]

Feed_get_trips_stats ==
    CHOOSE stats \in
        {CHOOSE merged \in
            {CHOOSE m \in {Feed_merge_stats(withtimes, g, dist)
                             : dist \in {distance_loop(g, {}, <<>>)}} : TRUE
               : g \in {Feed_g_rows(withtimes)}} : TRUE
           : withtimes \in {SelectSeq(trips.rows,
                                      LAMBDA r : \E i \in 1..Len(stop_times.rows) :
                                                    stop_times.rows[i].trip_id = r.trip_id)}} : TRUE

(***************************************************************************)
(* Route statistics of src/feed.py.  The requested dates are distinct.     *)
(* The frame of trip statistics merged with the activity matrix is kept as *)
(* rows [stats, active, weight]: active[j] is the activity cell of the     *)
(* j-th date and weight the number num/den.                                *)
(***************************************************************************)
RECURSIVE Concat(_)
Concat(qs) == IF qs = <<>> THEN <<>> ELSE Head(qs) \o Concat(Tail(qs))

\* trip_weights with weight 1 for every trip that is active on one of the dates.
trip_weights_any_date(trips_stats, frame, dates) ==
    CHOOSE merged \in
        {Tuple([k \in 1..Len(joined) |->
                  CHOOSE row \in
                      {[stats |-> joined[k], active |-> active,
                        weight |-> Num(IF Sum(active) > 0 THEN Len(dates) ELSE 0, Len(dates))]
                         : active \in {Tuple([j \in 1..Len(dates) |->
                                         frame.cells[j][CHOOSE i \in 1..Len(frame.trip_id) :
                                                          frame.trip_id[i] = joined[k].trip_id]])}}
                    : TRUE])
           : joined \in {SelectSeq(trips_stats,
                                   LAMBDA r : \E i \in 1..Len(frame.trip_id) :
                                                 /\ frame.trip_id[i] = r.trip_id
                                                 /\ frame.route_id[i] = r.route_id)}} : TRUE

\* trips_stats merged with the activity matrix, with the weight column.
trip_weights(trips_stats, frame, dates) ==
    CHOOSE merged \in
        {Tuple([k \in 1..Len(joined) |->
                  CHOOSE row \in
                      {[stats |-> joined[k], active |-> active,
                        weight |-> Num(Sum(active), Len(dates))]
                         : active \in {Tuple([j \in 1..Len(dates) |->
                                         frame.cells[j][CHOOSE i \in 1..Len(frame.trip_id) :
                                                          frame.trip_id[i] = joined[k].trip_id]])}}
                    : TRUE])
           : joined \in {SelectSeq(trips_stats,
                                   LAMBDA r : \E i \in 1..Len(frame.trip_id) :
                                                 /\ frame.trip_id[i] = r.trip_id
                                                 /\ frame.route_id[i] = r.route_id)}} : TRUE

\* round(n / d) of Python 2 (the module imports izip) for n / d >= 0: the nearest
\* integer, the one away from zero when n / d lies halfway.
round(n, d) == (2 * n + d) \div (2 * d)

\* The headways of one date: the differences of the consecutive sorted start times,
\* between 07:00 and 19:00, of the trips of the group active on the j-th date.
headways_on(group, starts, j) ==
    CHOOSE h \in
        {IF Len(stimes) < 2 THEN <<>>
         ELSE Tuple([i \in 1..(Len(stimes) - 1) |-> stimes[i + 1] - stimes[i]])
           : stimes \in
               {CHOOSE sorted \in
                   {SelectSeq(SortBy(on, {p \in Pairs(on) : on[p[1]] < on[p[2]]}),
                              LAMBDA t : 7 * 3600 <= t /\ t <= 19 * 3600)
                      : on \in {CHOOSE q \in
                                  {Tuple([i \in 1..Len(ks) |-> starts[ks[i]]])
                                     : ks \in {SelectSeq(Tuple([k \in 1..Len(group) |-> k]),
                                                         LAMBDA k : group[k].active[j] > 0)}}
                                  : TRUE}} : TRUE}} : TRUE

get_route_stats(group, dates) ==
    CHOOSE df \in
        {CHOOSE d \in
            {[route_id             |-> group[1].stats.route_id,
              min_start_time       |-> seconds_to_timestr(<<SetMin(Range(starts))>>, FALSE),
              max_end_time         |-> <<CHOOSE e \in ends : \A o \in ends : ~StrLess(e, o)>>,
              mean_daily_num_trips |-> Num(Sum(Tuple([k \in 1..Len(group) |-> group[k].weight.num])),
                                           Len(dates)),
              max_headway          |-> IF headways # <<>> THEN Num(SetMax(Range(headways)), 1)
                                       ELSE NaN,
              mean_headway         |-> IF headways # <<>>
                                       THEN Num(round(Sum(headways), Len(headways)), 1)
                                       ELSE NaN,
              mean_daily_duration  |-> Num(Sum(Tuple([k \in 1..Len(group) |->
                                             group[k].stats.duration.num * group[k].weight.num])),
                                           Len(dates)),
              mean_daily_distance  |-> Num(Sum(Tuple([k \in 1..Len(group) |->
                                             group[k].stats.distance.num * group[k].weight.num])),
                                           Len(dates))]
               : headways \in {Concat(Tuple([j \in 1..Len(dates) |-> headways_on(group, starts, j)]))},
                 ends     \in {{group[k].stats.end_time[1] : k \in 1..Len(group)}}} : TRUE
           : starts \in {Tuple([k \in 1..Len(group) |->
                                  seconds_to_timestr(group[k].stats.start_time, TRUE)[1]])}} : TRUE

\* Feed_get_routes_stats without the drop of the trips of weight 0.
\* drop_zero_weight that drops no trip.
keep_zero_weight(merged) == merged

\* trips_stats[trips_stats['weight'] > 0]
drop_zero_weight(merged) == SelectSeq(merged, LAMBDA r : r.weight.num > 0)

\* group_by_route with one group for each trip instead of one for each route.
group_by_route_per_trip(kept, dates) ==
    Tuple([k \in 1..Len(kept) |-> get_route_stats(<<kept[k]>>, dates)])

\* groupby('route_id').apply(get_route_stats): one row for each route of kept, in the
\* order of the route_id.
group_by_route(kept, dates) ==
    CHOOSE rows \in
        {Tuple([k \in 1..Len(keys) |->
                  CHOOSE row \in
                      {get_route_stats(group, dates)
                         : group \in {SelectSeq(kept, LAMBDA r : r.stats.route_id = keys[k])}}
                    : TRUE])
           : keys \in {CHOOSE q \in
                         {Tuple([k \in 1..Cardinality(ids) |->
                                   CHOOSE r \in ids :
                                     Cardinality({o \in ids : IdLess(o, r)}) = k - 1])
                            : ids \in {{kept[k].stats.route_id : k \in 1..Len(kept)}}} : TRUE}}
          : TRUE

\* The result is [none, raised, f, weights, rows]: none says that the call returned
\* None, f is the trips table after the call,
\* weights the merged frame with its weight column, rows the route statistics.
\* When no trip has a positive weight the grouped frame is empty, and whether it has
\* the column 'foo' that is deleted next depends on the pandas at hand: raised is then
\* "KeyError?", which stands for either a KeyError or an empty result.
Feed_get_routes_stats(trips_stats, dates) ==
    IF dates = <<>> THEN [none |-> TRUE, raised |-> "", f |-> trips, weights |-> <<>>, rows |-> <<>>]
    ELSE CHOOSE result \in
           {IF a.raised # "" THEN [none |-> FALSE, raised |-> a.raised, f |-> a.f, weights |-> <<>>, rows |-> <<>>]
            ELSE CHOOSE r \in
                   {CHOOSE q \in
                       {IF kept = <<>>
                        THEN [none |-> FALSE, raised |-> "KeyError?", f |-> a.f, weights |-> merged, rows |-> <<>>]
                        ELSE [none |-> FALSE, raised |-> "", f |-> a.f, weights |-> merged,
                              rows |-> group_by_route(kept, dates)]
                          : kept \in {drop_zero_weight(merged)}} : TRUE
                      : merged \in {trip_weights(trips_stats, a.frame, dates)}} : TRUE
              : a \in {Feed_get_trips_activity(dates)}} : TRUE

(***************************************************************************)
(* Route time series of src/feed.py.  The index of a series is the 1440    *)
(* minutes of a day, numbered from 0; a series is kept as the list of the  *)
(* writes made to it in the order of the loop over the trips: a write adds *)
(* the number num/den to the cells of its route at the minutes of its      *)
(* intervals <<lo, hi>> (lo included, hi excluded), a cell never written   *)
(* is NaN.  A write of kind "nan" sets its cells to NaN.                   *)
(***************************************************************************)
timestr_mod_24(timestr) ==
    IF timestr = <<>> THEN <<>>
    ELSE CHOOSE result \in
           {IF Len(fields) = 3 /\ \A i \in 1..3 : IsInt(fields[i])
            THEN <<format_02d(int_of(fields[1]) % 24) \o <<":">> \o format_02d(int_of(fields[2]))
                     \o <<":">> \o format_02d(int_of(fields[3]))>>
            ELSE <<>>
              : fields \in {split(timestr[1], ":")}} : TRUE

\* pd.to_datetime(date_str + ' ' + timestr) as the seconds since day_start.
to_datetime(timestr) ==
    CHOOSE t \in {int_of(fields[1]) * 3600 + int_of(fields[2]) * 60 + int_of(fields[3])
                    : fields \in {split(timestr, ":")}} : TRUE

\* The minute of the index that holds a time: Period(t, freq='Min').
minute_of(t) == t \div 60

day_end == 23 * 3600 + 59 * 60

\* criterion with the minute of the end of the trip selected too.
criterion_end_included(start, end) ==
    IF start = end THEN <<<<minute_of(start), minute_of(start) + 1>>>>
    ELSE IF start < end
    THEN <<<<minute_of(start), minute_of(end) + 1>>>>
    ELSE <<<<0, minute_of(end) + 1>>>> \o <<<<minute_of(start), minute_of(day_end) + 1>>>>

\* The minutes selected by criterion, for the times start and end of a trip.
criterion(start, end) ==
    IF start = end THEN <<<<minute_of(start), minute_of(start) + 1>>>>
    ELSE IF start < end
    THEN (IF minute_of(start) < minute_of(end) THEN <<<<minute_of(start), minute_of(end)>>>> ELSE <<>>)
    ELSE (IF minute_of(end) > 0 THEN <<<<0, minute_of(end)>>>> ELSE <<>>)
           \o <<<<minute_of(start), minute_of(day_end) + 1>>>>

\* 60 * num_bins, a whole number of seconds.
num_bins_60(start, end) ==
    IF start = end THEN 60
    ELSE IF start < end THEN end - start
    ELSE ((day_end - start) % 86400) + 60 + end

\* The writes of one trip (a row of the merged frame) to the four series.  The
\* assignment to the cell of the start minute of the series of trip starts takes its
\* value from the series g over the minutes of criterion: when criterion selects no
\* minute, g is empty, and the assignment either sets the cell to NaN or raises,
\* as empty_assign says.
bin_row(row, start, end, empty_assign) ==
    CHOOSE writes \in
        {[raised |-> IF bins = <<>> /\ empty_assign = "raise" THEN "ValueError" ELSE "",
          mean_daily_num_vehicles |->
              [route |-> row.stats.route_id, trip |-> row.stats.trip_id, kind |-> "add",
               bins |-> bins, num |-> row.weight.num, den |-> row.weight.den],
          mean_daily_num_trip_starts |->
              [route |-> row.stats.route_id, trip |-> row.stats.trip_id,
               kind |-> IF bins = <<>> THEN "nan" ELSE "add",
               bins |-> <<<<minute_of(start), minute_of(start) + 1>>>>,
               num |-> row.weight.num, den |-> row.weight.den],
          mean_daily_duration |->
              [route |-> row.stats.route_id, trip |-> row.stats.trip_id, kind |-> "add",
               bins |-> bins, num |-> row.weight.num * 60, den |-> row.weight.den],
          mean_daily_distance |->
              [route |-> row.stats.route_id, trip |-> row.stats.trip_id, kind |-> "add",
               bins |-> bins, num |-> row.weight.num * row.stats.distance.num * 60,
               den |-> row.weight.den * num_bins_60(start, end)]]
           : bins \in {criterion(start, end)}} : TRUE

bin_trip(row, empty_assign) ==
    CHOOSE writes \in
        {bin_row(row, start, end, empty_assign)
           : start \in {to_datetime(timestr_mod_24(row.stats.start_time)[1])},
             end   \in {to_datetime(timestr_mod_24(row.stats.end_time)[1])}} : TRUE

NoSeries == [mean_daily_num_vehicles |-> <<>>, mean_daily_num_trip_starts |-> <<>>,
             mean_daily_duration |-> <<>>, mean_daily_distance |-> <<>>]

\* The result is [none, raised, f, weights, series]: f is the trips table after the call,
\* weights the merged frame with its weight column, series the four time series.
Feed_get_routes_time_series(trips_stats, dates, empty_assign) ==
    IF dates = <<>> THEN [none |-> TRUE, raised |-> "", f |-> trips, weights |-> <<>>, series |-> NoSeries]
    ELSE CHOOSE result \in
           {IF a.raised # "" THEN [none |-> FALSE, raised |-> a.raised, f |-> a.f, weights |-> <<>>, series |-> NoSeries]
            ELSE CHOOSE r \in
                   {CHOOSE q \in
                       {IF \E i \in 1..Len(w) : w[i].raised # ""
                        THEN [none |-> FALSE, raised |-> "ValueError", f |-> a.f, weights |-> merged, series |-> NoSeries]
                        ELSE [none |-> FALSE, raised |-> "", f |-> a.f, weights |-> merged,
                              series |->
                                [mean_daily_num_vehicles |->
                                     Tuple([i \in 1..Len(w) |-> w[i].mean_daily_num_vehicles]),
                                 mean_daily_num_trip_starts |->
                                     Tuple([i \in 1..Len(w) |-> w[i].mean_daily_num_trip_starts]),
                                 mean_daily_duration |->
                                     Tuple([i \in 1..Len(w) |-> w[i].mean_daily_duration]),
                                 mean_daily_distance |->
                                     Tuple([i \in 1..Len(w) |-> w[i].mean_daily_distance])]]
                          : w \in {CHOOSE ws \in
                                     {Tuple([i \in 1..Len(kept) |-> bin_trip(kept[i], empty_assign)])
                                        : kept \in {drop_zero_weight(merged)}} : TRUE}}
                          : TRUE
                      : merged \in {trip_weights(trips_stats, a.frame, dates)}} : TRUE
              : a \in {Feed_get_trips_activity(dates)}} : TRUE

(***************************************************************************)
(* Stop statistics and stop time series of src/feed.py.  The frame of the  *)
(* activity matrix merged with the stop times is kept as rows [st, active]:*)
(* st is the stop time and active[j] the activity cell of its trip on the  *)
(* j-th date.  The series of a stop is kept as the list of the writes made *)
(* to it, as for the routes.                                               *)
(***************************************************************************)
StopLess(a, b) == (CHOOSE i \in 1..Len(stops) : stops[i].stop_id = a)
                    < (CHOOSE i \in 1..Len(stops) : stops[i].stop_id = b)

\* pd.merge(ta, stop_times): the stop times of the trips that are active on one of the
\* dates, in the order of the trips of the activity matrix.
merge_stop_times(frame, dates) ==
    CHOOSE f \in
        {Concat(Tuple([k \in 1..Len(ta) |->
                   CHOOSE rows \in
                       {Tuple([i \in 1..Len(st) |-> [st |-> st[i], active |-> active]])
                          : st     \in {SelectSeq(get_stop_times,
                                                  LAMBDA r : r.trip_id = frame.trip_id[ta[k]])},
                            active \in {Tuple([j \in 1..Len(dates) |-> frame.cells[j][ta[k]]])}}
                     : TRUE]))
           : ta \in {SelectSeq(Tuple([i \in 1..Len(frame.trip_id) |-> i]),
                               LAMBDA i : Sum(Tuple([j \in 1..Len(dates) |-> frame.cells[j][i]])) > 0)}}
          : TRUE

get_stop_stats(group, dates) ==
    CHOOSE df \in
        {CHOOSE d \in
            {[stop_id                 |-> group[1].st.stop_id,
              min_start_time          |-> seconds_to_timestr(<<SetMin(Range(dtimes))>>, FALSE),
              max_end_time            |-> seconds_to_timestr(<<SetMax(Range(dtimes))>>, FALSE),
              mean_daily_num_vehicles |-> Num(num_vehicles, Len(dates)),
              max_headway             |-> IF headways # <<>> THEN Num(SetMax(Range(headways)), 1)
                                          ELSE NaN,
              mean_headway            |-> IF headways # <<>>
                                          THEN Num(round(Sum(headways), Len(headways)), 1)
                                          ELSE NaN]
               : headways     \in {Concat(Tuple([j \in 1..Len(dates) |->
                                                   headways_on(group, dtimes, j)]))},
                 num_vehicles \in {Sum(Tuple([j \in 1..Len(dates) |->
                                     Cardinality({k \in 1..Len(group) : group[k].active[j] > 0})]))}}
              : TRUE
           : dtimes \in {Tuple([k \in 1..Len(group) |->
                                  seconds_to_timestr(group[k].st.departure_time, TRUE)[1]])}} : TRUE

\* groupby('stop_id'): the stops of f in the order of the stop_id.
stop_keys(f) ==
    CHOOSE q \in
        {Tuple([k \in 1..Cardinality(ids) |->
                  CHOOSE s \in ids : Cardinality({o \in ids : StopLess(o, s)}) = k - 1])
           : ids \in {{f[k].st.stop_id : k \in 1..Len(f)}}} : TRUE

\* The result is [none, raised, f, merged, rows]: f is the trips table after the call,
\* merged the activity matrix merged with the stop times, rows the stop statistics.
\* With no dates the activity matrix is None and indexing it raises TypeError.  When no
\* trip is active the grouped frame is empty, and whether it has the column 'foo' that
\* is deleted next depends on the pandas at hand: raised is then "KeyError?".
Feed_get_stops_stats(dates) ==
    CHOOSE result \in
       {IF a.raised # ""
        THEN [none |-> FALSE, raised |-> a.raised, f |-> a.f, merged |-> <<>>, rows |-> <<>>]
        ELSE IF a.none
        THEN [none |-> FALSE, raised |-> "TypeError", f |-> a.f, merged |-> <<>>, rows |-> <<>>]
        ELSE CHOOSE r \in
               {IF f = <<>>
                THEN [none |-> FALSE, raised |-> "KeyError?", f |-> a.f, merged |-> f, rows |-> <<>>]
                ELSE [none |-> FALSE, raised |-> "", f |-> a.f, merged |-> f,
                      rows |-> CHOOSE rows \in
                                 {Tuple([k \in 1..Len(keys) |->
                                     CHOOSE row \in
                                        {get_stop_stats(group, dates)
                                           : group \in {SelectSeq(f, LAMBDA r :
                                                                   r.st.stop_id = keys[k])}}
                                       : TRUE])
                                    : keys \in {stop_keys(f)}} : TRUE]
                  : f \in {merge_stop_times(a.frame, dates)}} : TRUE
          : a \in {Feed_get_trips_activity(dates)}} : TRUE

\* bin_stop_time with the activity cell of the first date as the weight.
bin_stop_time_first_date(row, dates) ==
    CHOOSE write \in
        {[stop |-> row.st.stop_id, trip |-> row.st.trip_id, kind |-> "add",
          bins |-> <<<<minute_of(dtime), minute_of(dtime) + 1>>>>,
          num |-> row.active[1], den |-> Len(dates)]
           : dtime \in {to_datetime(timestr_mod_24(row.st.departure_time)[1])}} : TRUE

\* The write of one row of the merged frame to the series of its stop: the weight of
\* its trip is added to the cell of the minute of its departure time.
bin_stop_time(row, dates) ==
    CHOOSE write \in
        {[stop |-> row.st.stop_id, trip |-> row.st.trip_id, kind |-> "add",
          bins |-> <<<<minute_of(dtime), minute_of(dtime) + 1>>>>,
          num |-> Sum(row.active), den |-> Len(dates)]
           : dtime \in {to_datetime(timestr_mod_24(row.st.departure_time)[1])}} : TRUE

NoStopsSeries == [mean_daily_num_vehicles |-> <<>>]

\* The result is [none, raised, f, merged, series]; the rows of the merged frame are
\* binned stop by stop, in the order of the stop_id.
Feed_get_stops_time_series(dates) ==
    IF dates = <<>>
    THEN [none |-> TRUE, raised |-> "", f |-> trips, merged |-> <<>>, series |-> NoStopsSeries]
    ELSE CHOOSE result \in
           {IF a.raised # ""
            THEN [none |-> FALSE, raised |-> a.raised, f |-> a.f, merged |-> <<>>,
                  series |-> NoStopsSeries]
            ELSE CHOOSE r \in
                   {[none |-> FALSE, raised |-> "", f |-> a.f, merged |-> stats,
                     series |->
                       [mean_daily_num_vehicles |->
                          CHOOSE w \in
                            {Concat(Tuple([k \in 1..Len(keys) |->
                                       CHOOSE ws \in
                                         {Tuple([i \in 1..Len(group) |->
                                                   bin_stop_time(group[i], dates)])
                                            : group \in {SelectSeq(stats, LAMBDA r :
                                                                    r.st.stop_id = keys[k])}}
                                         : TRUE]))
                               : keys \in {stop_keys(stats)}} : TRUE]]
                      : stats \in {merge_stop_times(a.frame, dates)}} : TRUE
              : a \in {Feed_get_trips_activity(dates)}} : TRUE

(***************************************************************************)
(* The state machine: a feed is loaded (Init) and its functions are called.*)
(* call records the last call, its arguments and what it returned.         *)
(***************************************************************************)
NoCall == [op |-> "", trip |-> "", date |-> 0, dates |-> <<>>, route_ids |-> [all |-> TRUE, ids |-> {}],
           compute_dist_from_shapes |-> FALSE, raised |-> "", none |-> FALSE, ret |-> FALSE,
           frame |-> NoFrame,
           stats |-> <<>>, trips_stats |-> <<>>, weights |-> <<>>, series |-> NoSeries,
           merged |-> <<>>, stops_series |-> NoStopsSeries, week |-> <<>>]

DateLists == SeqsUpTo(Dates, MaxDates)

RouteIdSets == {[all |-> TRUE, ids |-> {}], [all |-> FALSE, ids |-> {"r1"}], [all |-> FALSE, ids |-> {"r2"}]}

Init ==
    /\ \/ /\ trips = DefaultTrips
          /\ calendar \in Calendars
          /\ calendar_dates \in CalendarDates
          /\ stop_times = DefaultStopTimes
          /\ shapes = DefaultShapes
          /\ dist_units = "m"
       \/ /\ trips \in TripsTables
          /\ calendar = DefaultCalendar
          /\ calendar_dates = DefaultCalendarDates
          /\ stop_times \in StopTimesTables
          /\ shapes \in ShapesTables
          /\ dist_units \in DistUnits
    /\ feed0 = [trips |-> trips, calendar |-> calendar, calendar_dates |-> calendar_dates,
                stop_times |-> stop_times, shapes |-> shapes]
    /\ call = NoCall
    /\ calls = 0

Call_is_active_trip ==
    /\ calls < MaxCalls
    /\ \E t \in TripIds, d \in Dates :
         call' = [NoCall EXCEPT !.op = "is_active_trip", !.trip = t, !.date = d,
                                !.ret = is_active_trip(t, d)]
    /\ calls' = calls + 1
    /\ UNCHANGED <<trips, calendar, calendar_dates, stop_times, shapes, dist_units, feed0>>

Call_Feed_is_active_trip ==
    /\ calls < MaxCalls
    /\ Feed_constructed
    /\ \E t \in TripIds, d \in Dates :
         \E r \in {Feed_is_active_trip(t, d)} :
             call' = [NoCall EXCEPT !.op = "Feed.is_active_trip", !.trip = t, !.date = d,
                                    !.raised = r.raised, !.ret = r.value]
    /\ calls' = calls + 1
    /\ UNCHANGED <<trips, calendar, calendar_dates, stop_times, shapes, dist_units, feed0>>

Call_Feed_get_first_week ==
    /\ calls < MaxCalls
    /\ Feed_constructed
    /\ \E r \in {Feed_get_first_week} :
         call' = [NoCall EXCEPT !.op = "Feed.get_first_week", !.raised = r.raised, !.week = r.value]
    /\ calls' = calls + 1
    /\ UNCHANGED <<trips, calendar, calendar_dates, stop_times, shapes, dist_units, feed0>>

Call_compute_trip_activity ==
    /\ calls < MaxCalls
    /\ \E dates \in DateLists :
         call' = [NoCall EXCEPT !.op = "compute_trip_activity", !.dates = dates,
                                !.frame = compute_trip_activity(dates)]
    /\ calls' = calls + 1
    /\ UNCHANGED <<trips, calendar, calendar_dates, stop_times, shapes, dist_units, feed0>>

Call_Feed_get_trips_activity ==
    /\ calls < MaxCalls
    /\ Feed_constructed
    /\ \E dates \in DateLists :
         \E r \in {Feed_get_trips_activity(dates)} :
             /\ call' = [NoCall EXCEPT !.op = "Feed.get_trips_activity", !.dates = dates,
                                       !.raised = r.raised, !.none = r.none, !.frame = r.frame]
             /\ trips' = r.f
    /\ calls' = calls + 1
    /\ UNCHANGED <<calendar, calendar_dates, stop_times, shapes, dist_units, feed0>>

Call_compute_busiest_date ==
    /\ calls < MaxCalls
    /\ \E dates \in DateLists :
         \E r \in {compute_busiest_date(dates)} :
             call' = [NoCall EXCEPT !.op = "compute_busiest_date", !.dates = dates,
                                    !.raised = r.raised, !.frame = r.frame, !.date = r.value]
    /\ calls' = calls + 1
    /\ UNCHANGED <<trips, calendar, calendar_dates, stop_times, shapes, dist_units, feed0>>

Call_compute_trip_stats ==
    /\ calls < MaxCalls
    /\ \E route_ids \in RouteIdSets, compute_dist_from_shapes \in BOOLEAN :
         call' = [NoCall EXCEPT !.op = "compute_trip_stats", !.route_ids = route_ids,
                                !.compute_dist_from_shapes = compute_dist_from_shapes,
                                !.stats = compute_trip_stats(route_ids, compute_dist_from_shapes)]
    /\ calls' = calls + 1
    /\ UNCHANGED <<trips, calendar, calendar_dates, stop_times, shapes, dist_units, feed0>>

Call_Feed_get_trips_stats ==
    /\ calls < MaxCalls
    /\ Feed_constructed
    /\ \E r \in {Feed_get_trips_stats} :
         call' = [NoCall EXCEPT !.op = "Feed.get_trips_stats", !.raised = r.raised,
                                !.stats = r.rows]
    /\ calls' = calls + 1
    /\ UNCHANGED <<trips, calendar, calendar_dates, stop_times, shapes, dist_units, feed0>>

\* The trip statistics handed to the route functions: those of all the trips, of the
\* trips of one route, or of no trip (an empty table).
TripStatsSelections == RouteIdSets \cup {[all |-> FALSE, ids |-> {}]}

DistinctDateLists == {q \in DateLists : \A i, j \in 1..Len(q) : q[i] = q[j] => i = j}

Call_Feed_get_routes_stats ==
    /\ calls < MaxCalls
    /\ Feed_constructed
    /\ \E all_stats \in {Feed_get_trips_stats} :
           /\ all_stats.raised = ""
           /\ \E dates \in DistinctDateLists, route_ids \in TripStatsSelections :
                \E trips_stats \in {SelectSeq(all_stats.rows,
                                              LAMBDA r : route_ids.all \/ r.route_id \in route_ids.ids)} :
                \E r \in {Feed_get_routes_stats(trips_stats, dates)} :
                    /\ \E raised \in (IF r.raised = "KeyError?" THEN {"KeyError", ""}
                                      ELSE {r.raised}) :
                         call' = [NoCall EXCEPT !.op = "Feed.get_routes_stats", !.dates = dates,
                                                !.trips_stats = trips_stats, !.raised = raised,
                                                !.none = r.none, !.weights = r.weights,
                                                !.stats = r.rows]
                    /\ trips' = r.f
    /\ calls' = calls + 1
    /\ UNCHANGED <<calendar, calendar_dates, stop_times, shapes, dist_units, feed0>>

Call_Feed_get_routes_time_series ==
    /\ calls < MaxCalls
    /\ Feed_constructed
    /\ \E all_stats \in {Feed_get_trips_stats} :
           /\ all_stats.raised = ""
           /\ \E dates \in DistinctDateLists, route_ids \in TripStatsSelections, empty_assign \in {"nan", "raise"} :
                \E trips_stats \in {SelectSeq(all_stats.rows,
                                              LAMBDA r : route_ids.all \/ r.route_id \in route_ids.ids)} :
                \E r \in {Feed_get_routes_time_series(trips_stats, dates, empty_assign)} :
                    /\ call' = [NoCall EXCEPT !.op = "Feed.get_routes_time_series", !.dates = dates,
                                              !.trips_stats = trips_stats, !.raised = r.raised,
                                              !.none = r.none, !.weights = r.weights,
                                              !.series = r.series]
                    /\ trips' = r.f
    /\ calls' = calls + 1
    /\ UNCHANGED <<calendar, calendar_dates, stop_times, shapes, dist_units, feed0>>

Call_Feed_get_stops_stats ==
    /\ calls < MaxCalls
    /\ Feed_constructed
    /\ \E dates \in DistinctDateLists :
         \E r \in {Feed_get_stops_stats(dates)} :
             /\ \E raised \in (IF r.raised = "KeyError?" THEN {"KeyError", ""} ELSE {r.raised}) :
                  call' = [NoCall EXCEPT !.op = "Feed.get_stops_stats", !.dates = dates,
                                         !.raised = raised, !.none = r.none,
                                         !.merged = r.merged, !.stats = r.rows]
             /\ trips' = r.f
    /\ calls' = calls + 1
    /\ UNCHANGED <<calendar, calendar_dates, stop_times, shapes, dist_units, feed0>>

Call_Feed_get_stops_time_series ==
    /\ calls < MaxCalls
    /\ Feed_constructed
    /\ \E dates \in DistinctDateLists :
         \E r \in {Feed_get_stops_time_series(dates)} :
             /\ call' = [NoCall EXCEPT !.op = "Feed.get_stops_time_series", !.dates = dates,
                                       !.raised = r.raised, !.none = r.none,
                                       !.merged = r.merged, !.stops_series = r.series]
             /\ trips' = r.f
    /\ calls' = calls + 1
    /\ UNCHANGED <<calendar, calendar_dates, stop_times, shapes, dist_units, feed0>>

Next ==
    \/ Call_is_active_trip
    \/ Call_Feed_is_active_trip
    \/ Call_Feed_get_first_week
    \/ Call_compute_trip_activity
    \/ Call_compute_busiest_date
    \/ Call_Feed_get_trips_activity
    \/ Call_compute_trip_stats
    \/ Call_Feed_get_trips_stats
    \/ Call_Feed_get_routes_stats
    \/ Call_Feed_get_routes_time_series
    \/ Call_Feed_get_stops_stats
    \/ Call_Feed_get_stops_time_series

Spec == Init /\ [][Next]_vars

(***************************************************************************)
(* The time codec on its own: seconds_to_timestr is called on an input,    *)
(* then on what it returned.  call.origin is the first input and call.path *)
(* the inverse flags of the calls so far.                                  *)
(***************************************************************************)
HourFields == {<<"0">>, <<"8">>, <<"0", "8">>, <<"2", "3">>, <<"2", "4">>, <<"4", "7">>,
               <<"4", "8">>, <<"1", "0", "0">>}

MinuteFields == {<<"0", "0">>, <<"0", "5">>, <<"5", "9">>, <<"6", "0">>, <<"5">>}

SecondFields == {<<"0", "0">>, <<"5", "9">>, <<"7">>}

TimeStrings == {h \o <<":">> \o m \o <<":">> \o sec : h \in HourFields, m \in MinuteFields, sec \in SecondFields}

MalformedStrings ==
    { <<>>,
      <<"0", "8", ":", "0", "0">>,
      <<"0", "8", ":", "0", "0", ":", "0", "0", ":", "0", "0">>,
      <<"0", "8", "0", "0", "0", "0">>,
      <<"a", "b", ":", "0", "0", ":", "0", "0">>,
      <<"0", "8", ":", "0", "a", ":", "0", "0">>,
      <<"0", "8", ":", "0", "0", ":">>,
      <<":", "0", "0", ":", "0", "0">>,
      <<"0", "8", ":", ":", "0", "0">> }

Seconds == {h * 3600 + m * 60 + sec : h \in {0, 1, 9, 10, 23, 24, 47, 48}, m \in {0, 59}, sec \in {0, 1, 59}}

CodecInputs ==
    {PyStr(t) : t \in TimeStrings \cup MalformedStrings} \cup {PyInt(n) : n \in Seconds} \cup {PyNone}

\* raised is the exception that reaches the caller: none ever does, the bare except
\* clauses of seconds_to_timestr catch every one.
NoCodecCall == [op |-> "", x |-> PyNone, inverse |-> FALSE, raised |-> "", result |-> PyNone,
                origin |-> PyNone, path |-> <<>>]

InitCodec ==
    /\ trips = DefaultTrips
    /\ calendar = DefaultCalendar
    /\ calendar_dates = DefaultCalendarDates
    /\ stop_times = DefaultStopTimes
    /\ shapes = DefaultShapes
    /\ dist_units = "m"
    /\ feed0 = [trips |-> trips, calendar |-> calendar, calendar_dates |-> calendar_dates,
                stop_times |-> stop_times, shapes |-> shapes]
    /\ call = NoCodecCall
    /\ calls = 0

Call_seconds_to_timestr ==
    /\ calls < MaxCodecCalls
    /\ \E x \in (IF calls = 0 THEN CodecInputs ELSE {call.result}), inverse \in BOOLEAN :
         call' = [op |-> "seconds_to_timestr", x |-> x, inverse |-> inverse, raised |-> "",
                  result |-> seconds_to_timestr_any(x, inverse),
                  origin |-> IF calls = 0 THEN x ELSE call.origin,
                  path |-> Append(call.path, inverse)]
    /\ calls' = calls + 1
    /\ UNCHANGED <<trips, calendar, calendar_dates, stop_times, shapes, dist_units, feed0>>

NextCodec == Call_seconds_to_timestr

SpecCodec == InitCodec /\ [][NextCodec]_vars

(***************************************************************************)
(* Two calls on one feed that run interleaved.  Each thread computes the   *)
(* activity matrix for its own list of dates, one date column at a step,   *)
(* and then aggregates.  With call.impl = "feed.py" a thread runs          *)
(* Feed.get_routes_stats, whose Feed.get_trips_activity writes the date    *)
(* columns to self.trips, the table shared by the threads; with "trips.py" *)
(* it runs compute_trip_activity, which writes them to its own copy of     *)
(* feed.trips.  A thread is [pc, dates, j, f, frame, rows, raised, written,*)
(* observed]: j is the next date of the loop, f the thread's copy of the   *)
(* trips table (trips.py), written the shared tables it has written to,    *)
(* and observed says that it has read the trips table while the other      *)
(* thread had written some of its date columns and not yet all of them.    *)
(* An assignment f[date] = ... to the shared table is not one step of the  *)
(* interpreter: between its start (pc "writing") and its end the table is  *)
(* inconsistent, and a thread that reads or writes the table meanwhile     *)
(* either goes through or fails; raised = "race" stands for whatever the   *)
(* data race makes of that call.                                           *)
(***************************************************************************)
Threads == {1, 2}

ThreadDateLists == {q \in DistinctDateLists : q # <<>> /\ Range(q) \subseteq ExceptionDates}

NoThread == [pc |-> "start", dates |-> <<>>, j |-> 1, f |-> DefaultTrips, frame |-> NoFrame,
             rows |-> <<>>, raised |-> "", written |-> {}, observed |-> FALSE]

\* The trips_stats argument of the aggregation: the output of get_trips_stats().
ThreadTripStats == Feed_get_trips_stats.rows

\* The other thread is inside its loop over the dates and writes to the shared table.
HalfUpdatedBy(o) ==
    /\ call.impl = "feed.py"
    /\ \/ call.th[o].pc = "writing"
       \/ call.th[o].pc = "loop" /\ call.th[o].j > 1

\* The outcomes of an access of thread t to the shared table: it goes through, or, when
\* the other thread is inside an assignment to the table, it may fail.
RaceOutcomes(t) == IF call.impl = "feed.py" /\ call.th[3 - t].pc = "writing"
                   THEN {"ok", "race"} ELSE {"ok"}

Raced(th) == [th EXCEPT !.pc = "done", !.raised = "race"]

InitThreads ==
    /\ trips = DefaultTrips
    /\ calendar \in Calendars
    /\ calendar_dates = DefaultCalendarDates
    /\ stop_times = DefaultStopTimes
    /\ shapes = DefaultShapes
    /\ dist_units = "m"
    /\ feed0 = [trips |-> trips, calendar |-> calendar, calendar_dates |-> calendar_dates,
                stop_times |-> stop_times, shapes |-> shapes]
    /\ \E impl \in {"feed.py", "trips.py"} :
         call = [op |-> "threads", impl |-> impl, th |-> <<NoThread, NoThread>>]
    /\ calls = 0

\* The call is made: f = self.trips (feed.py), or dates = feed.restrict_dates(dates) and
\* f = feed.trips.copy() (trips.py), which returns an empty frame at once when no date
\* is left.
Thread_begin ==
    /\ \E t \in Threads, dates0 \in ThreadDateLists :
         /\ call.th[t].pc = "start"
         /\ \E dates \in {IF call.impl = "feed.py" THEN dates0 ELSE restrict_dates(dates0)} :
              call' = [call EXCEPT !.th[t] =
                         IF dates = <<>> THEN [@ EXCEPT !.pc = "done"]
                         ELSE [@ EXCEPT !.pc = "loop", !.dates = dates, !.f = trips,
                                        !.observed = HalfUpdatedBy(3 - t)]]
    /\ calls' = calls + 1
    /\ UNCHANGED <<trips, calendar, calendar_dates, stop_times, shapes, dist_units, feed0>>

\* One pass of the loop of feed.py, f[date] = f['trip_id'].map(...) on the shared table:
\* the column is computed from f['trip_id'], and the assignment starts.
Thread_write_shared_begin ==
    /\ \E t \in Threads :
         /\ call.impl = "feed.py" /\ call.th[t].pc = "loop"
         /\ \E outcome \in RaceOutcomes(t) :
            \E col \in {Tuple([i \in 1..Len(trips.rows) |->
                                Feed_is_active_trip(trips.rows[i].trip_id,
                                                    call.th[t].dates[call.th[t].j])])} :
              call' = [call EXCEPT !.th[t] =
                         IF outcome = "race" THEN Raced(@)
                         ELSE IF \E i \in 1..Len(col) : col[i].raised # ""
                         THEN [@ EXCEPT !.pc = "done",
                                        !.raised = col[SetMin({i \in 1..Len(col) :
                                                                 col[i].raised # ""})].raised,
                                        !.observed = @ \/ HalfUpdatedBy(3 - t)]
                         ELSE [@ EXCEPT !.pc = "writing",
                                        !.observed = @ \/ HalfUpdatedBy(3 - t)]]
    /\ UNCHANGED <<trips, calendar, calendar_dates, stop_times, shapes, dist_units, feed0, calls>>

\* The assignment to the shared table ends: the column is in the table.
Thread_write_shared ==
    /\ \E t \in Threads :
         /\ call.impl = "feed.py" /\ call.th[t].pc = "writing"
         /\ \E outcome \in RaceOutcomes(t) :
            \E date \in {call.th[t].dates[call.th[t].j]} :
              IF outcome = "race"
              THEN /\ call' = [call EXCEPT !.th[t] = Raced(@)]
                   /\ UNCHANGED trips
              ELSE /\ trips' = set_column(trips, date,
                                          Tuple([i \in 1..Len(trips.rows) |->
                                                   int(Feed_is_active_trip(trips.rows[i].trip_id,
                                                                           date).value)]))
                   /\ call' = [call EXCEPT !.th[t] =
                                 [@ EXCEPT !.pc = IF call.th[t].j = Len(call.th[t].dates)
                                                  THEN "select" ELSE "loop",
                                           !.j = @ + 1,
                                           !.written = @ \cup {"trips"}]]
    /\ UNCHANGED <<calendar, calendar_dates, stop_times, shapes, dist_units, feed0, calls>>

\* One pass of the loop of trips.py: f[date] = f["trip_id"].map(...) on the thread's copy.
Thread_write_copy ==
    /\ \E t \in Threads :
         /\ call.impl = "trips.py" /\ call.th[t].pc = "loop"
         /\ \E date \in {call.th[t].dates[call.th[t].j]} :
            \E col \in {Tuple([i \in 1..Len(call.th[t].f.rows) |->
                                int(is_active_trip(call.th[t].f.rows[i].trip_id, date))])} :
              call' = [call EXCEPT !.th[t] =
                         [@ EXCEPT !.pc = IF call.th[t].j = Len(call.th[t].dates) THEN "select"
                                            ELSE "loop",
                                   !.j = @ + 1,
                                   !.f = set_column(@, date, col)]]
    /\ UNCHANGED <<trips, calendar, calendar_dates, stop_times, shapes, dist_units, feed0, calls>>

\* return f[['trip_id', 'route_id'] + dates] (feed.py), f[["trip_id"] + list(dates)]
\* (trips.py).
Thread_select ==
    /\ \E t \in Threads :
         /\ call.th[t].pc = "select"
         /\ \E outcome \in RaceOutcomes(t) :
            \E f \in {IF call.impl = "feed.py" THEN trips ELSE call.th[t].f} :
              call' = [call EXCEPT !.th[t] =
                         IF outcome = "race" THEN Raced(@)
                         ELSE
                         [@ EXCEPT !.pc = IF call.impl = "feed.py" THEN "aggregate" ELSE "done",
                                   !.observed = @ \/ HalfUpdatedBy(3 - t),
                                   !.frame =
                                      [empty    |-> FALSE,
                                       trip_id  |-> Tuple([i \in 1..Len(f.rows) |-> f.rows[i].trip_id]),
                                       route_id |-> IF call.impl = "feed.py"
                                                    THEN Tuple([i \in 1..Len(f.rows) |->
                                                                  f.rows[i].route_id])
                                                    ELSE <<>>,
                                       dates    |-> call.th[t].dates,
                                       cells    |-> Tuple([j \in 1..Len(call.th[t].dates) |->
                                                             column(f, call.th[t].dates[j])])]]]
    /\ UNCHANGED <<trips, calendar, calendar_dates, stop_times, shapes, dist_units, feed0, calls>>

\* The rest of Feed.get_routes_stats: the merge, the weights and the groups.
Thread_aggregate ==
    /\ \E t \in Threads :
         /\ call.th[t].pc = "aggregate"
         /\ \E kept \in {drop_zero_weight(trip_weights(ThreadTripStats, call.th[t].frame,
                                                        call.th[t].dates))} :
              call' = [call EXCEPT !.th[t] =
                         IF kept = <<>> THEN [@ EXCEPT !.pc = "done", !.raised = "KeyError?"]
                         ELSE [@ EXCEPT !.pc = "done",
                                        !.rows = group_by_route(kept, call.th[t].dates)]]
    /\ UNCHANGED <<trips, calendar, calendar_dates, stop_times, shapes, dist_units, feed0, calls>>

NextThreads ==
    \/ Thread_begin
    \/ Thread_write_shared_begin
    \/ Thread_write_shared
    \/ Thread_write_copy
    \/ Thread_select
    \/ Thread_aggregate

SpecThreads == InitThreads /\ [][NextThreads]_vars

(***************************************************************************)
(* Properties.                                                             *)
(***************************************************************************)
ResolverOps == {"is_active_trip", "Feed.is_active_trip"}

ActivityOps == {"compute_trip_activity", "Feed.get_trips_activity"}

ServiceOf(t) == feed0.trips.rows[CHOOSE i \in 1..Len(feed0.trips.rows) :
                                   feed0.trips.rows[i].trip_id = t].service_id

ExceptionsFor(S, d) ==
    SelectSeq(feed0.calendar_dates.rows, LAMBDA r : r.service_id = S /\ r.date = d)

HasEntry(S) == \E i \in 1..Len(feed0.calendar.rows) : feed0.calendar.rows[i].service_id = S

EntryOf(S) == feed0.calendar.rows[CHOOSE i \in 1..Len(feed0.calendar.rows) :
                                    feed0.calendar.rows[i].service_id = S]

FlagOf(row, d) ==
    CASE weekday(d) = 0 -> row.monday
      [] weekday(d) = 1 -> row.tuesday
      [] weekday(d) = 2 -> row.wednesday
      [] weekday(d) = 3 -> row.thursday
      [] weekday(d) = 4 -> row.friday
      [] weekday(d) = 5 -> row.saturday
      [] weekday(d) = 6 -> row.sunday

\* C1: when calendar_dates holds exception rows for (service of the trip, date), all of
\* one exception_type, is_active_trip returns (no error raised) true if that type is 1
\* and false if it is 2, whatever the weekly calendar holds for the service.
C1_ExceptionOverrides ==
    call.op \in ResolverOps =>
        LET rows == ExceptionsFor(ServiceOf(call.trip), call.date)
        IN  (/\ rows # <<>>
             /\ \A i \in 1..Len(rows) : rows[i].exception_type = rows[1].exception_type)
            => /\ call.raised = ""
               /\ call.ret = (rows[1].exception_type = 1)

\* C2: when no exception row exists for (service of the trip, date) and the service has
\* a weekly calendar entry, is_active_trip returns true exactly when
\* start_date <= date <= end_date and the flag of the date's weekday is 1.
C2_RegularCalendar ==
    call.op \in ResolverOps =>
        LET S == ServiceOf(call.trip)
        IN  (ExceptionsFor(S, call.date) = <<>> /\ HasEntry(S))
            => /\ call.raised = ""
               /\ call.ret = (/\ EntryOf(S).start_date <= call.date
                              /\ call.date <= EntryOf(S).end_date
                              /\ FlagOf(EntryOf(S), call.date) = 1)

C2_Witness ==
    /\ call.op = "is_active_trip"
    /\ ExceptionsFor(ServiceOf(call.trip), call.date) = <<>>
    /\ feed0.calendar_dates.rows # <<>>
    /\ HasEntry(ServiceOf(call.trip))
    /\ call.date = EntryOf(ServiceOf(call.trip)).end_date
    /\ call.ret = TRUE

\* C3: when the service of the trip has no row in calendar and no exception row for the
\* date (the tables may be absent or empty), is_active_trip returns false and raises
\* no error.
C3_UnknownServiceInactive ==
    call.op \in ResolverOps =>
        LET S == ServiceOf(call.trip)
        IN  (ExceptionsFor(S, call.date) = <<>> /\ ~HasEntry(S))
            => /\ call.raised = ""
               /\ call.ret = FALSE

\* C4: when calendar_dates holds several exception rows for the same (service, date),
\* the first of them in table order decides the value is_active_trip returns.
C4_FirstExceptionWins ==
    (call.op \in ResolverOps /\ call.raised = "") =>
        LET rows == ExceptionsFor(ServiceOf(call.trip), call.date)
        IN  Len(rows) >= 2 => call.ret = (rows[1].exception_type = 1)

\* C5: a returned activity matrix has one row per trip, in the order of the trips
\* table, and each of its cells is 1 if is_active_trip is true of the row's trip and
\* the column's date, else 0.
C5_ActivityCells ==
    (call.op \in ActivityOps /\ call.raised = "" /\ ~call.frame.empty) =>
        /\ call.frame.trip_id = [i \in 1..Len(feed0.trips.rows) |-> feed0.trips.rows[i].trip_id]
        /\ Len(call.frame.cells) = Len(call.frame.dates)
        /\ \A j \in 1..Len(call.frame.dates) :
             /\ DOMAIN call.frame.cells[j] = 1..Len(feed0.trips.rows)
             /\ \A i \in 1..Len(feed0.trips.rows) :
                  LET t == feed0.trips.rows[i].trip_id
                      d == call.frame.dates[j]
                      active == IF call.op = "compute_trip_activity"
                                THEN is_active_trip(t, d)
                                ELSE Feed_is_active_trip(t, d).value
                  IN  /\ call.frame.cells[j][i] \in {0, 1}
                      /\ call.frame.cells[j][i] = 1 <=> active

C5_Witness ==
    /\ call.op \in ActivityOps
    /\ call.raised = ""
    /\ Len(call.frame.dates) = 2
    /\ call.frame.dates[1] # call.frame.dates[2]
    /\ \E i \in 1..3 : call.frame.cells[1][i] = 1 /\ call.frame.cells[2][i] = 0
    /\ \E i \in 1..3 : call.frame.cells[1][i] = 0 /\ call.frame.cells[2][i] = 1

ValidDate(d) ==
    LET ds == {feed0.calendar.rows[i].start_date : i \in 1..Len(feed0.calendar.rows)}
              \cup {feed0.calendar.rows[i].end_date : i \in 1..Len(feed0.calendar.rows)}
              \cup {feed0.calendar_dates.rows[i].date : i \in 1..Len(feed0.calendar_dates.rows)}
    IN  \E lo \in ds, hi \in ds : lo <= d /\ d <= hi

C7_InputTablesUnchanged ==
    /\ trips = feed0.trips
    /\ calendar = feed0.calendar
    /\ calendar_dates = feed0.calendar_dates
    /\ stop_times = feed0.stop_times
    /\ shapes = feed0.shapes

\* The rows of the merged frame of a route aggregation that belong to route r and
\* have a positive weight.
Contributors(r) == SelectSeq(call.weights, LAMBDA w : w.stats.route_id = r /\ w.weight.num > 0)

ActiveDates(t) == {j \in 1..Len(call.dates) : Feed_is_active_trip(t, call.dates[j]).value}

\* C8: in a route aggregation over n >= 1 dates the weight of each trip is (number of
\* the n dates on which the trip is active) / n, between 0 and 1; there is a row of
\* statistics exactly for each route with a trip of positive weight, and its
\* statistics are those of the positive-weight trips of that route alone: the sums of
\* their weights, weighted durations and weighted distances, their earliest start and
\* their latest end.
C8_TripWeights ==
    (call.op = "Feed.get_routes_stats" /\ call.raised = "" /\ call.dates # <<>>) =>
        LET n == Len(call.dates)
        IN  /\ \A k \in 1..Len(call.weights) :
                LET w == call.weights[k]
                IN  /\ w.weight.kind = "num"
                    /\ w.weight.num * n = Cardinality(ActiveDates(w.stats.trip_id)) * w.weight.den
                    /\ 0 <= w.weight.num /\ w.weight.num <= w.weight.den
            /\ {call.stats[i].route_id : i \in 1..Len(call.stats)}
                 = {call.weights[k].stats.route_id :
                      k \in {k \in 1..Len(call.weights) : call.weights[k].weight.num > 0}}
            /\ \A i, j \in 1..Len(call.stats) :
                 call.stats[i].route_id = call.stats[j].route_id => i = j
            /\ \A i \in 1..Len(call.stats) :
                 LET row == call.stats[i]
                     c   == Contributors(row.route_id)
                     cnt(t) == Cardinality(ActiveDates(t))
                 IN  /\ row.mean_daily_num_trips.num * n
                          = Sum([k \in 1..Len(c) |-> cnt(c[k].stats.trip_id)])
                            * row.mean_daily_num_trips.den
                     /\ row.mean_daily_duration.num * n
                          = Sum([k \in 1..Len(c) |->
                                   cnt(c[k].stats.trip_id) * c[k].stats.duration.num])
                            * row.mean_daily_duration.den
                     /\ row.mean_daily_distance.num * n
                          = Sum([k \in 1..Len(c) |->
                                   cnt(c[k].stats.trip_id) * c[k].stats.distance.num])
                            * row.mean_daily_distance.den
                     /\ \E k \in 1..Len(c) : row.min_start_time = c[k].stats.start_time
                     /\ \A k \in 1..Len(c) :
                          ~StrLess(c[k].stats.start_time[1], row.min_start_time[1])
                     /\ \E k \in 1..Len(c) : row.max_end_time = c[k].stats.end_time
                     /\ \A k \in 1..Len(c) :
                          ~StrLess(row.max_end_time[1], c[k].stats.end_time[1])

C8_Witness ==
    /\ call.op = "Feed.get_routes_stats"
    /\ call.raised = ""
    /\ Len(call.dates) = 2
    /\ call.stats # <<>>
    /\ \E k \in 1..Len(call.weights) : call.weights[k].weight.num = 0
    /\ \E k \in 1..Len(call.weights) :
         call.weights[k].weight.num = 1 /\ call.weights[k].weight.den = 2
    /\ \E k \in 1..Len(call.weights) :
         call.weights[k].weight.num = call.weights[k].weight.den

TripStatsOps == {"compute_trip_stats", "Feed.get_trips_stats"}

\* The stop times of a trip as loaded, ordered by stop_sequence.
OrderedStopTimes(t) ==
    LET st == SelectSeq(feed0.stop_times.rows, LAMBDA r : r.trip_id = t)
    IN  [k \in 1..Len(st) |->
           st[CHOOSE i \in 1..Len(st) :
                Cardinality({j \in 1..Len(st) : st[j].stop_sequence < st[i].stop_sequence}) = k - 1]]

\* Seconds past midnight of a time string H..H:MM:SS, hours not reduced.
SecondsOf(t) ==
    LET n == Len(t)
    IN  int_of(SubSeq(t, 1, n - 6)) * 3600
          + (DigitVal(t[n - 4]) * 10 + DigitVal(t[n - 3])) * 60
          + DigitVal(t[n - 1]) * 10 + DigitVal(t[n])

\* C9: for every trip of the trip statistics, with its stop times ordered by
\* stop_sequence: start_time and end_time are the departure times of the first and the
\* last stop time (as seconds past midnight, hours above 23 kept), the start and end
\* stops are the stops of the first and the last stop time, and the duration is
\* (end_time - start_time)/3600 hours; departures 08:00:00, 08:10:00, 25:00:00 give
\* end_time 90000 seconds and a duration of 17 hours.
C9_TripTimes ==
    (call.op \in TripStatsOps /\ call.raised = "") =>
        \A k \in 1..Len(call.stats) :
            LET row   == call.stats[k]
                st    == OrderedStopTimes(row.trip_id)
                first == SecondsOf(st[1].departure_time[1])
                last  == SecondsOf(st[Len(st)].departure_time[1])
            IN  /\ row.start_time # <<>> /\ SecondsOf(row.start_time[1]) = first
                /\ row.end_time # <<>> /\ SecondsOf(row.end_time[1]) = last
                /\ IF call.op = "compute_trip_stats"
                   THEN row.start_stop_id = st[1].stop_id /\ row.end_stop_id = st[Len(st)].stop_id
                   ELSE row.start_stop = st[1].stop_id /\ row.end_stop = st[Len(st)].stop_id
                /\ row.duration.kind = "num"
                /\ row.duration.num * 3600 = (last - first) * row.duration.den
                /\ (first = 28800 /\ last = 90000) =>
                     (SecondsOf(row.end_time[1]) = 90000 /\ row.duration.num = 17 * row.duration.den)

\* C9 for compute_trip_stats of src/gtfstk/trips.py alone.
C9_TripTimes_trips_py == call.op = "compute_trip_stats" => C9_TripTimes

NonNullDist(rows) == {i \in 1..Len(rows) : rows[i].shape_dist_traveled # <<>>}

HasGeometry(row) ==
    /\ feed0.shapes.present
    /\ row.shape_id # <<>>
    /\ \E i \in 1..Len(feed0.shapes.rows) : feed0.shapes.rows[i].shape_id = row.shape_id[1]

MaxDist(rows) == SetMax({rows[i].shape_dist_traveled[1] : i \in NonNullDist(rows)})

\* C10 as stated: (1) if stop_times has a shape_dist_traveled column with a non-null
\* value and compute_dist_from_shapes is false, a trip's distance is the maximum
\* shape_dist_traveled over its stop times; (2) else if a shape geometry exists for the
\* trip, the distance is computed from it; (3) else it is null; and a trip's distance is
\* null only when neither (1) nor (2) can give a value for that trip.
C10_DistanceTiers ==
    call.op = "compute_trip_stats" =>
        LET tier1 == /\ feed0.stop_times.has_shape_dist_traveled
                     /\ NonNullDist(feed0.stop_times.rows) # {}
                     /\ ~call.compute_dist_from_shapes
        IN  \A k \in 1..Len(call.stats) :
               LET row == call.stats[k]
                   st  == OrderedStopTimes(row.trip_id)
               IN  /\ (tier1 /\ NonNullDist(st) # {}) =>
                         (row.distance.kind = "num" /\ row.distance.num = MaxDist(st) * row.distance.den)
                   /\ (~tier1 /\ HasGeometry(row)) => row.distance.kind = "num"
                   /\ (~tier1 /\ ~HasGeometry(row)) => row.distance.kind = "nan"
                   /\ row.distance.kind = "nan" =>
                         (~(tier1 /\ NonNullDist(st) # {}) /\ ~HasGeometry(row))

\* C10 amended: compute_trip_stats chooses the source of the distances once for the
\* call: (1) if the stop times of the selected trips have a shape_dist_traveled column
\* with a non-null value and compute_dist_from_shapes is false, each trip's distance is
\* the maximum non-null shape_dist_traveled over its own stop times, and null if it has
\* none, also when a shape geometry exists for the trip; (2) else if the feed has a
\* shapes table, a trip's distance is computed from its shape geometry (the distance
\* between the projections of its first and last stop, or the length of the linestring),
\* and null if its shape_id is null or has no geometry; (3) else every distance is null.
C10_DistanceTiersPerCall ==
    call.op = "compute_trip_stats" =>
        LET selected == {call.stats[k].trip_id : k \in 1..Len(call.stats)}
            tier1 == /\ feed0.stop_times.has_shape_dist_traveled
                     /\ \E i \in NonNullDist(feed0.stop_times.rows) :
                          feed0.stop_times.rows[i].trip_id \in selected
                     /\ ~call.compute_dist_from_shapes
            unit  == IF dist_units = "km" THEN 1000 ELSE 1
        IN  \A k \in 1..Len(call.stats) :
               LET row == call.stats[k]
                   st  == OrderedStopTimes(row.trip_id)
               IN  IF tier1
                   THEN IF NonNullDist(st) # {}
                        THEN row.distance.kind = "num" /\ row.distance.num = MaxDist(st) * row.distance.den
                        ELSE row.distance.kind = "nan"
                   ELSE IF feed0.shapes.present
                   THEN IF HasGeometry(row)
                        THEN LET D  == (CHOOSE g \in Range(feed0.shapes.rows) : g.shape_id = row.shape_id[1]).length
                                 x1 == StopX(st[1].stop_id)
                                 x2 == StopX(st[Len(st)].stop_id)
                                 p1 == IF x1 > D THEN D ELSE x1
                                 p2 == IF x2 > D THEN D ELSE x2
                             IN  /\ row.distance.kind = "num"
                                 /\ row.distance.num * unit \in {D * row.distance.den, (p2 - p1) * row.distance.den}
                                 /\ row.distance.num > 0
                        ELSE row.distance.kind = "nan"
                   ELSE row.distance.kind = "nan"

C10_Witness ==
    /\ call.op = "compute_trip_stats"
    /\ ~call.compute_dist_from_shapes
    /\ \E k \in 1..Len(call.stats) :
         /\ call.stats[k].distance.kind = "nan"
         /\ HasGeometry(call.stats[k])
    /\ \E k \in 1..Len(call.stats) : call.stats[k].distance.kind = "num"

\* The linestring of the shape of a row of trip statistics.
LinestringOf(row) == CHOOSE g \in Range(feed0.shapes.rows) : g.shape_id = row.shape_id[1]

\* The rows of a returned table of trip statistics whose distance comes from the
\* geometry of their shape.
GeometryRows ==
    IF call.op = "Feed.get_trips_stats" /\ call.raised = ""
    THEN {k \in 1..Len(call.stats) : HasGeometry(call.stats[k])}
    ELSE IF /\ call.op = "compute_trip_stats"
            /\ ~(/\ feed0.stop_times.has_shape_dist_traveled
                 /\ \E i \in NonNullDist(feed0.stop_times.rows) :
                      \E k \in 1..Len(call.stats) :
                         feed0.stop_times.rows[i].trip_id = call.stats[k].trip_id
                 /\ ~call.compute_dist_from_shapes)
    THEN {k \in 1..Len(call.stats) : HasGeometry(call.stats[k])}
    ELSE {}

\* The rows of a returned table of trip statistics whose distance is asked of the
\* shape geometry, whether their shape has a geometry or not.
GeometryRowsOrFaulty ==
    IF call.op = "Feed.get_trips_stats" /\ call.raised = ""
    THEN 1..Len(call.stats)
    ELSE IF /\ call.op = "compute_trip_stats"
            /\ feed0.shapes.present
            /\ ~(/\ feed0.stop_times.has_shape_dist_traveled
                 /\ \E i \in NonNullDist(feed0.stop_times.rows) :
                      \E k \in 1..Len(call.stats) :
                         feed0.stop_times.rows[i].trip_id = call.stats[k].trip_id
                 /\ ~call.compute_dist_from_shapes)
    THEN 1..Len(call.stats)
    ELSE {}

StartStop(row) == IF call.op = "compute_trip_stats" THEN row.start_stop_id ELSE row.start_stop

EndStop(row) == IF call.op = "compute_trip_stats" THEN row.end_stop_id ELSE row.end_stop

\* The distance in meters of a row of trip statistics, when it is a whole number.
Meters(row) ==
    IF call.op = "compute_trip_stats" /\ dist_units = "km"
    THEN (row.distance.num * 1000) \div row.distance.den
    ELSE row.distance.num \div row.distance.den

\* C11: in the geometry-based distance of a trip whose linestring has length D and
\* whose first and last stops project onto it at d1 and d2, the result is d2 - d1 when
\* 0 < d2 - d1 <= D + 100, and the full length D when d2 - d1 <= 0, when
\* d2 - d1 > D + 100 or when the linestring self-intersects; it is never negative, and
\* never 0 for a linestring of positive length.
C11_GeometryDistance ==
    \A k \in GeometryRows :
        LET row        == call.stats[k]
            linestring == LinestringOf(row)
            D          == linestring.length
            d1         == project(linestring, StopX(StartStop(row)))
            d2         == project(linestring, StopX(EndStop(row)))
        IN  /\ row.distance.kind = "num"
            /\ Meters(row) = IF ~linestring.is_simple THEN D
                             ELSE IF 0 < d2 - d1 /\ d2 - d1 <= D + 100 THEN d2 - d1
                             ELSE D
            /\ row.distance.num > 0

\* C11 for compute_trip_stats of src/gtfstk/trips.py alone.
C11_GeometryDistance_trips_py == call.op = "compute_trip_stats" => C11_GeometryDistance

\* A call of compute_trip_stats that returns d2 - d1 for one trip and falls back to
\* the length of the linestring for a trip that runs against its shape.
C11_Witness_trips_py ==
    /\ call.op = "compute_trip_stats"
    /\ \E k \in GeometryRows :
         LET row == call.stats[k]
         IN  /\ LinestringOf(row).is_simple
             /\ StopX(EndStop(row)) < StopX(StartStop(row))
             /\ Meters(row) = LinestringOf(row).length
             /\ Meters(row) # StopX(StartStop(row)) - StopX(EndStop(row))
    /\ \E k \in GeometryRows :
         LET row == call.stats[k]
         IN  /\ LinestringOf(row).is_simple
             /\ Meters(row) = 500
             /\ LinestringOf(row).length = 800

\* The trips of a batch whose shape_id is null or matches no shape geometry.
Faulty == {k \in 1..Len(call.stats) : ~HasGeometry(call.stats[k])}

\* The distance and speed columns of the row of trip_id in a table of trip statistics.
DistanceIn(stats, trip_id) ==
    {[distance |-> stats[i].distance, speed |-> stats[i].speed]
       : i \in {j \in 1..Len(stats) : stats[j].trip_id = trip_id}}

\* C12: in a batch of trips whose distances come from the shape geometry, a trip whose
\* shape_id is null or matches no geometry gets a null distance and a null speed, and
\* the computation does not abort: every other trip of the batch has its own row, with
\* the distance it gets when the batch is computed without the faulty trip.
C12_FaultyShapePerRow ==
    /\ (call.op = "Feed.get_trips_stats" /\ feed0.shapes.present) =>
          /\ call.raised = ""
          /\ \A i \in 1..Len(feed0.trips.rows) :
                \E k \in 1..Len(call.stats) : call.stats[k].trip_id = feed0.trips.rows[i].trip_id
    /\ (call.op = "compute_trip_stats" /\ feed0.shapes.present /\ call.route_ids.all) =>
          /\ \A i \in 1..Len(feed0.trips.rows) :
                \E k \in 1..Len(call.stats) : call.stats[k].trip_id = feed0.trips.rows[i].trip_id
          /\ \A k \in Faulty \cap GeometryRowsOrFaulty :
                call.stats[k].distance.kind = "nan" /\ call.stats[k].speed.kind = "nan"
          /\ \A k \in GeometryRowsOrFaulty \ Faulty :
                /\ call.stats[k].distance.kind = "num"
                /\ \A k2 \in Faulty :
                      call.stats[k2].route_id # call.stats[k].route_id =>
                         DistanceIn(compute_trip_stats([all |-> FALSE, ids |-> {call.stats[k].route_id}],
                                                       call.compute_dist_from_shapes),
                                    call.stats[k].trip_id)
                           = {[distance |-> call.stats[k].distance, speed |-> call.stats[k].speed]}

\* C12 for compute_trip_stats of src/gtfstk/trips.py alone.
C12_FaultyShapePerRow_trips_py == call.op = "compute_trip_stats" => C12_FaultyShapePerRow

\* A batch of compute_trip_stats with a faulty trip next to trips with a distance.
C12_Witness_trips_py ==
    /\ call.op = "compute_trip_stats"
    /\ call.route_ids.all
    /\ \E k \in Faulty \cap GeometryRowsOrFaulty : call.stats[k].shape_id = <<>>
    /\ \E k \in GeometryRowsOrFaulty \ Faulty : call.stats[k].distance.num > 0

RECURSIVE GCD(_, _)
GCD(a, b) == IF b = 0 THEN a ELSE GCD(b, a % b)

\* The rational number n/d, d > 0, in lowest terms.
Reduced(n, d) == <<n \div GCD(Abs(n), d), d \div GCD(Abs(n), d)>>

\* speed = distance / duration for three numbers of a row.
IsQuotient(speed, distance, duration) ==
    Reduced(speed.num, speed.den)
      = Reduced(distance.num * duration.den, distance.den * duration.num)

\* C13: in every row of the trip statistics, speed = distance / duration when both are
\* non-null and the duration is not 0; the speed is null when the distance is null,
\* when the duration is null or when the duration is 0 (a trip with one stop time, or
\* whose first and last departure times are equal); the speed is never infinite.
C13_Speed ==
    call.op = "compute_trip_stats" =>
        \A k \in 1..Len(call.stats) :
            LET row == call.stats[k]
            IN  /\ row.speed.kind # "inf"
                /\ IF row.distance.kind = "num" /\ row.duration.kind = "num" /\ row.duration.num # 0
                   THEN row.speed.kind = "num" /\ IsQuotient(row.speed, row.distance, row.duration)
                   ELSE row.speed.kind = "nan"

\* C13 but for the trips of duration 0, whose speed is the quotient of the floating
\* point division: infinite for a positive distance, null for a null distance.
C13_SpeedButZeroDuration ==
    call.op = "compute_trip_stats" =>
        \A k \in 1..Len(call.stats) :
            LET row == call.stats[k]
            IN  IF row.distance.kind = "num" /\ row.duration.kind = "num"
                THEN IF row.duration.num # 0
                     THEN row.speed.kind = "num" /\ IsQuotient(row.speed, row.distance, row.duration)
                     ELSE row.speed.kind = IF row.distance.num = 0 THEN "nan" ELSE "inf"
                ELSE row.speed.kind = "nan"

\* The fields of a time string.
Fields(t) == split(t, ":")

\* A well-formed time string H:MM:SS or HH:MM:SS with hour below 48: three fields of
\* digits, one or two for the hour, two for the minutes (below 60) and two for the
\* seconds (below 60).
WellFormed(t) ==
    /\ Len(Fields(t)) = 3
    /\ \A i \in 1..3 : IsInt(Fields(t)[i])
    /\ Len(Fields(t)[1]) \in {1, 2} /\ int_of(Fields(t)[1]) < 48
    /\ Len(Fields(t)[2]) = 2 /\ int_of(Fields(t)[2]) < 60
    /\ Len(Fields(t)[3]) = 2 /\ int_of(Fields(t)[3]) < 60

\* C14 as stated: seconds_to_timestr(seconds_to_timestr(s, inverse=True)) = s for every
\* well-formed time string s of the form H:MM:SS with hour below 48, and
\* seconds_to_timestr(seconds_to_timestr(n), inverse=True) = n for every integer n
\* with 0 <= n < 48 * 3600.
C14_RoundTrip ==
    /\ (call.path = <<TRUE, FALSE>> /\ call.origin.type = "str" /\ WellFormed(call.origin.str)) =>
          call.result = call.origin
    /\ (call.path = <<FALSE, TRUE>> /\ call.origin.type = "int"
          /\ 0 <= call.origin.int /\ call.origin.int < 48 * 3600) =>
          call.result = call.origin

\* C14 amended: the round trip string -> seconds -> string is the identity on the
\* well-formed time strings whose hour has two digits; a well-formed time string with
\* a one-digit hour comes back with its hour padded with a zero; the round trip
\* seconds -> string -> seconds is the identity for 0 <= n < 48 * 3600.
C14_RoundTripPadded ==
    /\ (call.path = <<TRUE, FALSE>> /\ call.origin.type = "str" /\ WellFormed(call.origin.str)) =>
          /\ call.result.type = "str"
          /\ call.result.str = IF Len(Fields(call.origin.str)[1]) = 2 THEN call.origin.str
                                ELSE <<"0">> \o call.origin.str
    /\ (call.path = <<FALSE, TRUE>> /\ call.origin.type = "int"
          /\ 0 <= call.origin.int /\ call.origin.int < 48 * 3600) =>
          call.result = call.origin

\* A round trip of a time string of the next day.
C14_Witness ==
    /\ call.path = <<TRUE, FALSE>>
    /\ call.origin.type = "str"
    /\ WellFormed(call.origin.str)
    /\ int_of(Fields(call.origin.str)[1]) >= 24
    /\ call.result = call.origin

\* A malformed input of the conversion to seconds: a value that is no string, or a
\* string that has not exactly three ':'-separated fields, or has an empty field or
\* a character that is no digit in a field.
Malformed(x) ==
    \/ x.type # "str"
    \/ Cardinality({i \in 1..Len(x.str) : x.str[i] = ":"}) # 2
    \/ \E i \in 1..Len(x.str) : ~IsDigit(x.str[i]) /\ x.str[i] # ":"
    \/ x.str[1] = ":" \/ x.str[Len(x.str)] = ":"
    \/ \E i \in 1..(Len(x.str) - 1) : x.str[i] = ":" /\ x.str[i + 1] = ":"

\* C15 as stated: converting a malformed time string to seconds fails with a
\* ParseError unless the caller has chosen the mode that maps malformed input to a
\* null value, and it never returns an integer.  seconds_to_timestr(seconds, inverse)
\* has no parameter that chooses such a mode, so no caller has chosen it.
C15_MalformedRaises ==
    (call.path = <<TRUE>> /\ Malformed(call.origin)) =>
        (call.raised = "ParseError" /\ call.result.type # "int")

\* C15 amended: converting a malformed time string to seconds never fails and never
\* returns an integer: the result is the null value None in every call.
C15_MalformedIsNone ==
    (call.path = <<TRUE>> /\ Malformed(call.origin)) =>
        (call.raised = "" /\ call.result = PyNone)

\* A conversion of a string of three fields, one of them not a number.
C15_Witness ==
    /\ call.path = <<TRUE>>
    /\ call.origin.type = "str"
    /\ Len(Fields(call.origin.str)) = 3
    /\ Malformed(call.origin)
    /\ call.result = PyNone

\* The members of a set of integers in increasing order.
Ascending(S) ==
    [k \in 1..Cardinality(S) |-> CHOOSE v \in S : Cardinality({o \in S : o < v}) = k - 1]

\* The differences of the consecutive members of a sequence.
Differences(q) == IF Len(q) < 2 THEN <<>> ELSE [i \in 1..(Len(q) - 1) |-> q[i + 1] - q[i]]

\* The distinct start times, between 07:00 and 19:00, of the trips of route r that
\* are active on the j-th date of a route aggregation.
PeakStarts(r, j) ==
    {SecondsOf(call.weights[k].stats.start_time[1]) :
       k \in {i \in 1..Len(call.weights) : /\ call.weights[i].stats.route_id = r
                                            /\ call.weights[i].active[j] > 0}}
      \cap (7 * 3600)..(19 * 3600)

\* The headways of route r over the dates of a route aggregation.
Headways(r) ==
    Concat([j \in 1..Len(call.dates) |-> Differences(Ascending(PeakStarts(r, j)))])

\* C16: for each route, the headways are the differences in seconds between the
\* consecutive sorted distinct start times, within 07:00-19:00, of the trips of the
\* route active on a date; max_headway is their maximum and mean_headway their mean
\* rounded to an integer; when fewer than two start times qualify the headway fields
\* are null, and a headway field is never 0.
C16_Headways ==
    (call.op = "Feed.get_routes_stats" /\ call.raised = "" /\ call.dates # <<>>) =>
        \A i \in 1..Len(call.stats) :
            LET row == call.stats[i]
                h   == Headways(row.route_id)
            IN  IF h = <<>>
                THEN row.max_headway.kind = "nan" /\ row.mean_headway.kind = "nan"
                ELSE /\ row.max_headway.kind = "num" /\ row.mean_headway.kind = "num"
                     /\ row.max_headway.num = SetMax(Range(h))
                     /\ 2 * Abs(row.mean_headway.num * Len(h) - Sum(h)) <= Len(h)
                     /\ row.max_headway.num # 0 /\ row.mean_headway.num # 0

\* No two trips of a route that are active on the same date start at the same time.
DistinctStarts ==
    \A i, k \in 1..Len(call.weights) :
        (/\ i # k
         /\ call.weights[i].stats.route_id = call.weights[k].stats.route_id
         /\ \E j \in 1..Len(call.dates) : call.weights[i].active[j] > 0 /\ call.weights[k].active[j] > 0)
        => call.weights[i].stats.start_time # call.weights[k].stats.start_time

\* C16 for the route aggregations in which the trips of a route that run on the same
\* date have different start times.
C16_HeadwaysOfDistinctStarts == DistinctStarts => C16_Headways

\* A route aggregation over two dates with a headway on one of them only.
C16_Witness_distinct_starts ==
    /\ call.op = "Feed.get_routes_stats" /\ call.raised = ""
    /\ Len(call.dates) = 2
    /\ DistinctStarts
    /\ \E i \in 1..Len(call.stats) :
         /\ Len(Headways(call.stats[i].route_id)) = 1
         /\ call.stats[i].max_headway.kind = "num"
    /\ \E i \in 1..Len(call.stats) : call.stats[i].max_headway.kind = "nan"

\* The minutes of a write to a time series.
Minutes(write) == UNION {write.bins[i][1]..(write.bins[i][2] - 1) : i \in 1..Len(write.bins)}

\* The second of the day of a time string, its hours reduced modulo 24.
SecondOfDay(t) == SecondsOf(t) % 86400

\* The trips of positive weight of a time series call, in the order of the frame.
Kept == SelectSeq(call.weights, LAMBDA w : w.weight.num > 0)

RECURSIVE CellAfter(_, _, _, _)
CellAfter(q, route, minute, cell) ==
    IF q = <<>> THEN cell
    ELSE IF Head(q).route # route \/ minute \notin Minutes(Head(q))
    THEN CellAfter(Tail(q), route, minute, cell)
    ELSE IF Head(q).kind = "nan" THEN CellAfter(Tail(q), route, minute, <<>>)
    ELSE CellAfter(Tail(q), route, minute,
                   <<(IF cell = <<>> THEN 0 ELSE cell[1]) + Head(q).num>>)

\* The sum over the day of the series of trip starts of a route, NaN cells skipped,
\* as a numerator over the number of dates.
TripStartsSum(route) ==
    LET q       == call.series.mean_daily_num_trip_starts
        written == UNION {Minutes(q[k]) : k \in {i \in 1..Len(q) : q[i].route = route}}
        cells   == Ascending(written)
    IN  Sum([i \in 1..Len(cells) |->
               LET c == CellAfter(q, route, cells[i], <<>>) IN IF c = <<>> THEN 0 ELSE c[1]])

\* The route statistics of the trip statistics and dates of a time series call.
RouteStatsOfCall == Feed_get_routes_stats(call.trips_stats, call.dates).rows

\* C18: for every route and every list of dates, the sum over the bins of the day of
\* the route's series of trip starts equals the number of trips of the route
\* (mean_daily_num_trips, the sum of the weights of its trips) that the route
\* aggregation gives for the same trip statistics and dates.
C18_TripStartsSum ==
    (call.op = "Feed.get_routes_time_series" /\ call.raised = "" /\ call.dates # <<>>) =>
        \A i \in 1..Len(RouteStatsOfCall) :
            LET row == RouteStatsOfCall[i]
            IN  /\ row.mean_daily_num_trips.den = Len(call.dates)
                /\ TripStartsSum(row.route_id) = row.mean_daily_num_trips.num

\* No trip of the call starts before it ends within one minute of the index.
NoTripInsideAMinute ==
    \A k \in 1..Len(Kept) :
        LET s == SecondOfDay(Kept[k].stats.start_time[1])
            e == SecondOfDay(Kept[k].stats.end_time[1])
        IN  ~(s < e /\ s \div 60 = e \div 60)

\* C18 for the calls without a trip that starts and ends at different seconds of the
\* same minute.
C18_TripStartsSumOfOtherTrips == NoTripInsideAMinute => C18_TripStartsSum

\* A time series over two dates with two trips of a route starting in the same minute.
C18_Witness_other_trips ==
    /\ call.op = "Feed.get_routes_time_series" /\ call.raised = ""
    /\ Len(call.dates) = 2
    /\ NoTripInsideAMinute
    /\ \E i, k \in 1..Len(Kept) :
         /\ i # k
         /\ Kept[i].stats.route_id = Kept[k].stats.route_id
         /\ Kept[i].stats.start_time = Kept[k].stats.start_time
         /\ Kept[i].weight.num = 1 /\ Kept[k].weight.num = 2
         /\ TripStartsSum(Kept[i].stats.route_id) = 3

\* The sum of two rational numbers <<n, d>>, in lowest terms.
RatAdd(a, b) == Reduced(a[1] * b[2] + b[1] * a[2], a[2] * b[2])

RECURSIVE RatSum(_)
RatSum(q) == IF q = <<>> THEN <<0, 1>> ELSE RatAdd(Head(q), RatSum(Tail(q)))

\* The sum over the day of the series of service distance of a route, times the
\* number of dates: each write adds its value to the cells of its minutes.
DistanceSum(route) ==
    LET q == SelectSeq(call.series.mean_daily_distance, LAMBDA w : w.route = route)
    IN  RatSum([k \in 1..Len(q) |->
                  LET part == Reduced(60 * Cardinality(Minutes(q[k])), q[k].den \div Len(call.dates))
                  IN  Reduced((q[k].num \div 60) * part[1], part[2])])

\* The sum of distance x weight over the trips of a route, times the number of dates.
WeightedDistance(route) ==
    LET c == SelectSeq(Kept, LAMBDA w : w.stats.route_id = route)
    IN  Sum([k \in 1..Len(c) |-> c[k].stats.distance.num * c[k].weight.num])

\* C19: for every route, the sum over the bins of the day of the route's series of
\* service distance equals, within 0.1%, the sum of distance x weight over the trips
\* of the route, whatever their start and end times: within the day, across midnight,
\* or in the same bin.
C19_DistanceSum ==
    (call.op = "Feed.get_routes_time_series" /\ call.raised = "" /\ call.dates # <<>>) =>
        \A i \in 1..Len(Kept) :
            LET route  == Kept[i].stats.route_id
                get    == DistanceSum(route)
                expect == WeightedDistance(route)
            IN  Abs(get[1] - expect * get[2]) * 1000 < expect * get[2]

\* The start and end times of the trips of the call are whole minutes.
WholeMinutes ==
    \A k \in 1..Len(Kept) :
        /\ SecondsOf(Kept[k].stats.start_time[1]) % 60 = 0
        /\ SecondsOf(Kept[k].stats.end_time[1]) % 60 = 0

\* C19 for the calls whose trips start and end on whole minutes.
C19_DistanceSumOfWholeMinutes == WholeMinutes => C19_DistanceSum

\* A time series with a trip across midnight and a trip within the day on a route.
C19_Witness_whole_minutes ==
    /\ call.op = "Feed.get_routes_time_series" /\ call.raised = ""
    /\ WholeMinutes
    /\ \E i, k \in 1..Len(Kept) :
         /\ Kept[i].stats.route_id = Kept[k].stats.route_id
         /\ SecondsOf(Kept[i].stats.end_time[1]) > 86400
         /\ SecondsOf(Kept[k].stats.end_time[1]) < 86400
         /\ DistanceSum(Kept[i].stats.route_id) = <<WeightedDistance(Kept[i].stats.route_id), 1>>

\* The rows of the trip statistics given to a route aggregation that belong to route r.
TripsOf(r) == SelectSeq(call.trips_stats, LAMBDA t : t.route_id = r)

\* C20: for every route, route aggregation gives num_trips = the sum of the weights,
\* service_duration = the sum of duration x weight and service_distance = the sum of
\* distance x weight over the trips of the route in the trip statistics, the weight of
\* a trip being the fraction of the dates on which it is active; hence the sum of
\* service_distance over all routes equals the sum of distance x weight over all rows
\* of the trip statistics.
C20_RouteSums ==
    (call.op = "Feed.get_routes_stats" /\ call.raised = "" /\ call.dates # <<>>) =>
        LET n == Len(call.dates)
            active_dates == [t \in {call.trips_stats[k].trip_id : k \in 1..Len(call.trips_stats)} |->
                               Cardinality(ActiveDates(t))]
        IN  /\ \A i \in 1..Len(call.stats) :
                  LET row == call.stats[i]
                      c   == TripsOf(row.route_id)
                  IN  /\ row.mean_daily_num_trips.den = n
                      /\ row.mean_daily_duration.den = n
                      /\ row.mean_daily_distance.den = n
                      /\ row.mean_daily_num_trips.num
                           = Sum([k \in 1..Len(c) |-> active_dates[c[k].trip_id]])
                      /\ row.mean_daily_duration.num
                           = Sum([k \in 1..Len(c) |-> active_dates[c[k].trip_id] * c[k].duration.num])
                      /\ row.mean_daily_distance.num
                           = Sum([k \in 1..Len(c) |-> active_dates[c[k].trip_id] * c[k].distance.num])
            /\ Sum([i \in 1..Len(call.stats) |-> call.stats[i].mean_daily_distance.num])
                 = Sum([k \in 1..Len(call.trips_stats) |->
                          active_dates[call.trips_stats[k].trip_id] * call.trips_stats[k].distance.num])

\* A route aggregation over two dates of two routes, with a trip of weight 0, a trip
\* of weight 1/2 and a trip of weight 1.
C20_Witness ==
    /\ call.op = "Feed.get_routes_stats" /\ call.raised = ""
    /\ Len(call.dates) = 2
    /\ Len(call.stats) = 2
    /\ {Cardinality(ActiveDates(call.trips_stats[k].trip_id)) : k \in 1..Len(call.trips_stats)}
         = {0, 1, 2}

\* The routes of the trips of positive weight in the merged frame of the call.
ActiveRoutes == {call.weights[k].stats.route_id : k \in {i \in 1..Len(call.weights) :
                                                           call.weights[i].weight.num > 0}}

\* C21: route aggregation returns exactly one row for each route_id among the trips of
\* positive weight: no route is in two rows, no route with an active trip is missing,
\* no row is of a route without one, and there are at most as many rows as routes.
C21_OneRowPerRoute ==
    (call.op = "Feed.get_routes_stats" /\ call.raised = "" /\ call.dates # <<>>) =>
        /\ \A i, j \in 1..Len(call.stats) : call.stats[i].route_id = call.stats[j].route_id => i = j
        /\ {call.stats[i].route_id : i \in 1..Len(call.stats)} = ActiveRoutes
        /\ \A r \in ActiveRoutes : \E t \in TripIds : \E j \in 1..Len(call.dates) :
               /\ \E k \in 1..Len(call.trips_stats) :
                     call.trips_stats[k].trip_id = t /\ call.trips_stats[k].route_id = r
               /\ Feed_is_active_trip(t, call.dates[j]).value
        /\ \A k \in 1..Len(call.trips_stats) :
               (\E j \in 1..Len(call.dates) :
                   Feed_is_active_trip(call.trips_stats[k].trip_id, call.dates[j]).value)
                 => call.trips_stats[k].route_id \in ActiveRoutes
        /\ Len(call.stats) <= Len(routes)

\* A route aggregation that returns one row, for a route with two active trips, from
\* trip statistics that hold a trip of weight 0 of another route.
C21_Witness ==
    /\ call.op = "Feed.get_routes_stats" /\ call.raised = "" /\ call.dates # <<>>
    /\ Len(call.stats) = 1
    /\ \E r \in ActiveRoutes :
          Cardinality({k \in 1..Len(call.weights) : call.weights[k].stats.route_id = r
                                                      /\ call.weights[k].weight.num > 0}) = 2
    /\ \E k \in 1..Len(call.weights) : /\ call.weights[k].weight.num = 0
                                        /\ call.weights[k].stats.route_id \notin ActiveRoutes

\* The functions that take a list of dates.
DatesOps == {"compute_trip_activity", "Feed.get_trips_activity", "Feed.get_routes_stats",
             "Feed.get_routes_time_series", "Feed.get_stops_stats", "Feed.get_stops_time_series"}

\* C22: called with an empty list of dates, the activity matrix and every aggregation
\* and time-series function returns an empty table (a table, not None) and raises no
\* error.
C22_EmptyDates ==
    (call.op \in DatesOps /\ call.dates = <<>>) =>
        /\ call.raised = ""
        /\ ~call.none
        /\ call.frame.empty /\ call.stats = <<>> /\ call.series = NoSeries
        /\ call.stops_series = NoStopsSeries

\* C22 for compute_trip_activity of src/gtfstk/trips.py only.
C22_EmptyDates_trips_py == call.op = "compute_trip_activity" => C22_EmptyDates

\* Called with an empty list of dates, no function but Feed.get_stops_stats raises, and
\* none writes to the feed.
C22_EmptyDatesNoError ==
    (call.op \in DatesOps /\ call.dates = <<>>) =>
        /\ call.op # "Feed.get_stops_stats" => call.raised = ""
        /\ trips = feed0.trips

\* compute_trip_activity has returned an empty table for an empty list of dates.
C22_Witness_trips_py ==
    call.op = "compute_trip_activity" /\ call.dates = <<>> /\ call.frame.empty /\ ~call.none

RouteOps == {"Feed.get_routes_stats", "Feed.get_routes_time_series"}

\* Every trip of the feed has its service in calendar.txt, so that the activity matrix
\* of the call is computed without a KeyError.
ActivityComputes ==
    \A i \in 1..Len(feed0.trips.rows) : feed0.trips.rows[i].trip_id \in calendar_m_index

\* C23: called with an empty table of trip statistics (and a non-empty list of dates,
\* on a feed whose activity matrix is computed), route aggregation and the route time
\* series raise no error and return a result without rows: a table, not None, that
\* holds no value.
C23_EmptyTripStats ==
    (call.op \in RouteOps /\ call.trips_stats = <<>> /\ call.dates # <<>> /\ ActivityComputes) =>
        /\ call.raised = ""
        /\ ~call.none
        /\ call.stats = <<>>
        /\ call.series = NoSeries

\* C23 for the route time series only.
C23_EmptyTripStats_time_series == call.op = "Feed.get_routes_time_series" => C23_EmptyTripStats

\* The route time series has returned for an empty table of trip statistics.
C23_Witness_time_series ==
    /\ call.op = "Feed.get_routes_time_series"
    /\ call.trips_stats = <<>> /\ call.dates # <<>> /\ ActivityComputes
    /\ call.raised = "" /\ ~call.none /\ call.series = NoSeries

\* The call was given trip statistics, and every trip in them has weight 0 on its dates.
NoActiveService ==
    /\ call.dates # <<>> /\ call.trips_stats # <<>> /\ ActivityComputes
    /\ \A k \in 1..Len(call.trips_stats) : \A j \in 1..Len(call.dates) :
           ~Feed_is_active_trip(call.trips_stats[k].trip_id, call.dates[j]).value

NullValued(row) ==
    /\ row.min_start_time = <<>> /\ row.max_end_time = <<>>
    /\ row.mean_daily_num_trips.kind = "nan"
    /\ row.max_headway.kind = "nan" /\ row.mean_headway.kind = "nan"
    /\ row.mean_daily_duration.kind = "nan" /\ row.mean_daily_distance.kind = "nan"

\* C24: when every trip has weight 0 on the requested dates, route aggregation does
\* not raise and returns one null-valued row for each route of the trip statistics,
\* and the route time series holds only null values.
C24_NoActiveService ==
    /\ (call.op = "Feed.get_routes_stats" /\ NoActiveService) =>
           /\ call.raised = ""
           /\ {call.stats[i].route_id : i \in 1..Len(call.stats)}
                = {call.trips_stats[k].route_id : k \in 1..Len(call.trips_stats)}
           /\ \A i, j \in 1..Len(call.stats) :
                  call.stats[i].route_id = call.stats[j].route_id => i = j
           /\ \A i \in 1..Len(call.stats) : NullValued(call.stats[i])
    /\ (call.op = "Feed.get_routes_time_series" /\ NoActiveService) =>
           (call.raised = "" /\ ~call.none /\ call.series = NoSeries)

\* C24 for the route time series only.
C24_NoActiveService_time_series ==
    call.op = "Feed.get_routes_time_series" => C24_NoActiveService

\* When every trip has weight 0, route aggregation gives no row at all.
C24_NoActiveServiceNoRows ==
    (call.op = "Feed.get_routes_stats" /\ NoActiveService) =>
        (call.raised \in {"", "KeyError"} /\ call.stats = <<>>)

\* The route time series has returned for trip statistics whose trips all have weight 0.
C24_Witness_time_series ==
    /\ call.op = "Feed.get_routes_time_series" /\ NoActiveService
    /\ call.raised = "" /\ call.series = NoSeries
    /\ Len(call.weights) > 0

\* The number of the trips of the feed that are active on a date.
NumActive(d) == Cardinality({t \in {trips.rows[i].trip_id : i \in 1..Len(trips.rows)} :
                               is_active_trip(t, d)})

\* The dates of the list of the call for which the feed is valid, in list order.
GivenDates == restrict_dates(call.dates)

\* The positions in GivenDates of the dates with the maximum number of active trips.
Busiest == {i \in 1..Len(GivenDates) :
              \A j \in 1..Len(GivenDates) : NumActive(GivenDates[j]) <= NumActive(GivenDates[i])}

\* C25: compute_busiest_date(dates) returns the first date of the list, in list order,
\* among the dates with the maximum number of active trips.
C25_BusiestDate ==
    (call.op = "compute_busiest_date" /\ call.raised = "") =>
        call.date = GivenDates[SetMin(Busiest)]

\* compute_busiest_date(dates) returns the latest of the dates of the list with the
\* maximum number of active trips, wherever it stands in the list.
C25_BusiestDateIsLatestOfTies ==
    (call.op = "compute_busiest_date" /\ call.raised = "") =>
        call.date = SetMax({GivenDates[i] : i \in Busiest})

\* compute_busiest_date has returned for a list of two dates with different numbers
\* of active trips, the busier one standing last.
C25_Witness_no_tie ==
    /\ call.op = "compute_busiest_date" /\ call.raised = ""
    /\ Len(GivenDates) = 2 /\ Busiest = {2}
    /\ call.date = GivenDates[2]

\* What the call of a thread returns when it runs alone on the feed.
Alone(t) ==
    IF call.impl = "feed.py"
    THEN LET r == Feed_get_routes_stats(ThreadTripStats, call.th[t].dates)
         IN  [raised |-> r.raised, rows |-> r.rows,
              frame  |-> IF r.raised \in {"", "KeyError?"}
                         THEN Feed_get_trips_activity(call.th[t].dates).frame ELSE NoFrame]
    ELSE [raised |-> "", rows |-> <<>>, frame |-> compute_trip_activity(call.th[t].dates)]

\* Each finished thread has returned what its call returns when run alone.
ResultsAsAlone ==
    \A t \in Threads :
        call.th[t].pc = "done" =>
            /\ call.th[t].raised = Alone(t).raised
            /\ call.th[t].rows = Alone(t).rows
            /\ call.th[t].frame = Alone(t).frame

\* C26: two aggregation calls on one feed that run interleaved each return what the
\* same call returns when run alone, no table of the feed is written by both (the only
\* state both may write is a fill-once cache), and neither call reads a table that the
\* other has half-updated.
C26_Interleaved ==
    call.op = "threads" =>
        /\ ResultsAsAlone
        /\ call.th[1].written \cap call.th[2].written \subseteq {"cache"}
        /\ \A t \in Threads : ~call.th[t].observed

\* The first part of C26 for the runs in which no access to the shared table fell inside
\* an assignment of the other thread: the results are those of the calls run alone.
C26_ResultsAsAlone ==
    (call.op = "threads" /\ \A t \in Threads : call.th[t].raised # "race") => ResultsAsAlone

\* C26 for compute_trip_activity of src/gtfstk/trips.py.
C26_Interleaved_trips_py == (call.op = "threads" /\ call.impl = "trips.py") => C26_Interleaved

\* Two interleaved calls of compute_trip_activity with different lists of two dates have
\* returned.
C26_Witness_trips_py ==
    /\ call.op = "threads" /\ call.impl = "trips.py"
    /\ \A t \in Threads : call.th[t].pc = "done" /\ Len(call.th[t].frame.dates) = 2
    /\ call.th[1].dates # call.th[2].dates

\* Two interleaved calls of Feed.get_routes_stats have returned rows, one of them having
\* read the trips table between two writes of the other.
C26_Witness_results ==
    /\ call.op = "threads" /\ call.impl = "feed.py"
    /\ \A t \in Threads : call.th[t].pc = "done" /\ call.th[t].rows # <<>>
    /\ call.th[1].dates # call.th[2].dates
    /\ \E t \in Threads : call.th[t].observed

\* The civil dates from the least start_date to the greatest end_date of calendar.txt.
IsCivilDate(d) ==
    /\ (d \div 100) % 100 \in 1..12
    /\ d % 100 \in 1..(IF (d \div 100) % 100 = 2
                       THEN (IF (d \div 10000) % 4 = 0 THEN 29 ELSE 28)
                       ELSE IF (d \div 100) % 100 \in {4, 6, 9, 11} THEN 30 ELSE 31)

ValidityRange ==
    {d \in SetMin({feed0.calendar.rows[i].start_date : i \in 1..Len(feed0.calendar.rows)})
            ..SetMax({feed0.calendar.rows[i].end_date : i \in 1..Len(feed0.calendar.rows)}) :
       IsCivilDate(d)}

\* The Mondays of the validity range.
Mondays == {d \in ValidityRange : weekday(d) = 0}

\* C27: for a feed whose validity range holds a date, get_first_week returns without
\* raising at most 7 consecutive dates of the range, starting at the first Monday of
\* the range (no date when it has no Monday): the 7 dates of the week when the range
\* holds them all, else that week up to the last date of the range.
C27_FirstWeek ==
    (call.op = "Feed.get_first_week" /\ feed0.calendar.rows # <<>> /\ ValidityRange # {}) =>
        /\ call.raised = ""
        /\ Len(call.week) <= 7
        /\ Range(call.week) \subseteq ValidityRange
        /\ Range(call.week) \subseteq Range(Feed_get_dates.value)
        /\ \A i \in 1..(Len(call.week) - 1) :
               /\ call.week[i] < call.week[i + 1]
               /\ ~\E d \in ValidityRange : call.week[i] < d /\ d < call.week[i + 1]
        /\ (call.week = <<>>) = (Mondays = {})
        /\ call.week # <<>> =>
               /\ call.week[1] = SetMin(Mondays)
               /\ Len(call.week) = 7 \/ call.week[Len(call.week)] = SetMax(ValidityRange)
               /\ Len(call.week) = 7 =>
                      \A i \in 1..7 : weekday(call.week[i]) = i - 1

\* get_first_week has returned the 7 dates of a week from a feed that starts on the day
\* before the Monday and ends after the Sunday.
C27_Witness ==
    /\ call.op = "Feed.get_first_week" /\ call.raised = ""
    /\ Len(call.week) = 7
    /\ SetMin(ValidityRange) < call.week[1]
    /\ call.week[7] < SetMax(ValidityRange)

\* The sum over the day of the series of service duration of a route, times the number
\* of dates: each write adds its value to the cells of its minutes.
DurationSum(route) ==
    LET q == SelectSeq(call.series.mean_daily_duration, LAMBDA w : w.route = route)
    IN  Sum([k \in 1..Len(q) |-> q[k].num * Cardinality(Minutes(q[k]))])

\* The sum of weight x (end_time - start_time), in seconds, over the trips of a route,
\* times the number of dates.
WeightedDuration(route) ==
    LET c == SelectSeq(Kept, LAMBDA w : w.stats.route_id = route)
    IN  Sum([k \in 1..Len(c) |->
               c[k].weight.num * (SecondsOf(c[k].stats.end_time[1])
                                    - SecondsOf(c[k].stats.start_time[1]))])

\* C28: for every route, the sum over the bins of the day of the route's series of
\* service duration equals the sum of weight x (end_time - start_time) in seconds over
\* the trips of the route, when the trips start and end on whole minutes, trips of zero
\* duration and trips of 24 hours or more included.
C28_DurationSum ==
    (call.op = "Feed.get_routes_time_series" /\ call.raised = "" /\ call.dates # <<>>
       /\ WholeMinutes) =>
        /\ \A k \in 1..Len(call.series.mean_daily_duration) :
               LET w == call.series.mean_daily_duration[k]
               IN  w.kind = "add" /\ w.den = Len(call.dates)
        /\ \A i \in 1..Len(Kept) :
               DurationSum(Kept[i].stats.route_id) = WeightedDuration(Kept[i].stats.route_id)

\* The trips of the call last more than 0 seconds and less than 24 hours.
WithinADay ==
    \A k \in 1..Len(Kept) :
        LET duration == SecondsOf(Kept[k].stats.end_time[1]) - SecondsOf(Kept[k].stats.start_time[1])
        IN  0 < duration /\ duration < 86400

\* C28 for the calls whose trips last more than 0 seconds and less than 24 hours.
C28_DurationSumWithinADay == WithinADay => C28_DurationSum

\* A trip whose start and end fall on the same time of the day (a trip of zero duration
\* or of a whole number of days) adds 60 seconds times its weight to the series.
C28_DurationOfSameTimeOfDay ==
    (call.op = "Feed.get_routes_time_series" /\ call.raised = "" /\ call.dates # <<>>) =>
        \A k \in 1..Len(Kept) :
            SecondOfDay(Kept[k].stats.start_time[1]) = SecondOfDay(Kept[k].stats.end_time[1]) =>
                /\ call.series.mean_daily_duration[k].trip = Kept[k].stats.trip_id
                /\ call.series.mean_daily_duration[k].num = 60 * Kept[k].weight.num
                /\ Cardinality(Minutes(call.series.mean_daily_duration[k])) = 1

\* A time series over two dates with a trip across midnight and a trip within the day
\* on a route, of weights 1/2 and 1.
C28_Witness_within_a_day ==
    /\ call.op = "Feed.get_routes_time_series" /\ call.raised = "" /\ Len(call.dates) = 2
    /\ WholeMinutes /\ WithinADay
    /\ \E i, k \in 1..Len(Kept) :
         /\ Kept[i].stats.route_id = Kept[k].stats.route_id
         /\ SecondsOf(Kept[i].stats.end_time[1]) > 86400
         /\ SecondsOf(Kept[k].stats.end_time[1]) < 86400
         /\ Kept[i].weight.num = 1 /\ Kept[k].weight.num = 2
         /\ DurationSum(Kept[i].stats.route_id) = 17 * 3600 + 2 * 3600

\* The sum over the day of the series of a stop, times the number of dates: each write
\* adds its value to the cells of its minutes.
StopSeriesSum(stop) ==
    LET q == SelectSeq(call.stops_series.mean_daily_num_vehicles, LAMBDA w : w.stop = stop)
    IN  Sum([k \in 1..Len(q) |-> q[k].num * Cardinality(Minutes(q[k]))])

\* The pairs of a stop time at a stop and a date of the call on which its trip is active.
VisitsOn(stop) ==
    {p \in (1..Len(feed0.stop_times.rows)) \X (1..Len(call.dates)) :
        /\ feed0.stop_times.rows[p[1]].stop_id = stop
        /\ Feed_is_active_trip(feed0.stop_times.rows[p[1]].trip_id, call.dates[p[2]]).value}

\* The stop statistics of the dates of a time series call.
StopStatsOfCall == Feed_get_stops_stats(call.dates).rows

\* C29: for every stop and every non-empty list of dates, the sum over the bins of the
\* day of the stop's series of vehicles equals the stop's mean_daily_num_vehicles of
\* get_stops_stats for the same dates: the number of (stop time, date) pairs at the
\* stop whose trip is active on the date, divided by the number of dates.
C29_StopVehiclesSum ==
    (call.op = "Feed.get_stops_time_series" /\ call.raised = "" /\ call.dates # <<>>) =>
        /\ \A k \in 1..Len(call.stops_series.mean_daily_num_vehicles) :
               LET w == call.stops_series.mean_daily_num_vehicles[k]
               IN  w.kind = "add" /\ w.den = Len(call.dates) /\ Minutes(w) \subseteq 0..1439
        /\ \A i \in 1..Len(stops) :
               StopSeriesSum(stops[i].stop_id) = Cardinality(VisitsOn(stops[i].stop_id))
        /\ \A i \in 1..Len(StopStatsOfCall) :
               LET row == StopStatsOfCall[i]
               IN  /\ row.mean_daily_num_vehicles.den = Len(call.dates)
                   /\ row.mean_daily_num_vehicles.num = StopSeriesSum(row.stop_id)
        /\ \A i \in 1..Len(stops) :
               (\A k \in 1..Len(StopStatsOfCall) : StopStatsOfCall[k].stop_id # stops[i].stop_id)
                 => StopSeriesSum(stops[i].stop_id) = 0

\* A stop time series over two dates with a stop that is visited by three trips, of
\* weight 1/2 and 1, one of them after 24:00:00.
C29_Witness ==
    /\ call.op = "Feed.get_stops_time_series" /\ call.raised = "" /\ Len(call.dates) = 2
    /\ \E i, k \in 1..Len(call.merged) :
         /\ call.merged[i].st.stop_id = call.merged[k].st.stop_id
         /\ Sum(call.merged[i].active) = 1 /\ Sum(call.merged[k].active) = 2
         /\ SecondsOf(call.merged[i].st.departure_time[1]) >= 86400
         /\ StopSeriesSum(call.merged[i].st.stop_id) = 4
    /\ Len(StopStatsOfCall) = 3

\* The distance that get_trips_stats computes afresh for a row: the length of the
\* segment of its linestring between its two stops, or the length of the linestring
\* when that is 0.
Fresh(row) ==
    LET linestring == LinestringOf(row)
        d == Abs(project(linestring, StopX(row.start_stop))
                   - project(linestring, StopX(row.end_stop)))
    IN  IF d = 0 THEN linestring.length ELSE d

\* C30: in get_trips_stats every trip gets the distance that a fresh computation gives
\* for it, whether it was computed afresh or read from the cache of its shape under
\* the unordered pair of its start and end stops, also when two trips of one shape run
\* between the same two stops in opposite directions.
C30_CacheIsFresh ==
    (call.op = "Feed.get_trips_stats" /\ call.raised = "") =>
        \A k \in 1..Len(call.stats) :
            /\ call.stats[k].distance.kind = "num" /\ call.stats[k].distance.den = 1
            /\ call.stats[k].distance.num = Fresh(call.stats[k])

\* get_trips_stats has returned for two trips of one shape that run between the same
\* two stops in opposite directions: the second one has read the distance of the first
\* from the cache.
C30_Witness ==
    /\ call.op = "Feed.get_trips_stats" /\ call.raised = ""
    /\ \E i, k \in 1..Len(call.stats) :
         /\ IdLess(call.stats[i].trip_id, call.stats[k].trip_id)
         /\ call.stats[i].shape_id = call.stats[k].shape_id
         /\ call.stats[i].start_stop = call.stats[k].end_stop
         /\ call.stats[i].end_stop = call.stats[k].start_stop
         /\ call.stats[i].start_stop # call.stats[i].end_stop
         /\ call.stats[i].distance = call.stats[k].distance

====
